---- MODULE Spec2Model ----
(***************************************************************************)
(* Model of the zeptos static task executor: the run queue                 *)
(* (src/src/executor/runqueue.rs), the task cell and executor exception    *)
(* (src/src/executor/mod.rs) and the interrupt signal                      *)
(* (src/src/executor/interrupt.rs).                                        *)
(*                                                                         *)
(* The processor is modelled as one call stack.  The bottom of the stack   *)
(* is task context (thread mode during boot, the PendSV exception          *)
(* afterwards); an interrupt handler is a frame pushed on top of whatever  *)
(* is running, and it runs to completion before the frames below it        *)
(* resume.  Every frame advances one memory access at a time, so a         *)
(* handler can be entered between any two memory accesses of the code it   *)
(* preempts.  A call or return that touches no memory is part of the step  *)
(* of the access before it.                                                *)
(***************************************************************************)
EXTENDS Integers, Sequences, FiniteSets, TLC

\* ---------------------------------------------------------------- bounds
NTasks == 2          \* tasks declared with #[zeptos::task]; task 1 is main
NSignals == 1        \* Interrupt signals (one isr! handler each)
MaxIsrNest == 1      \* interrupt handlers that may be active at once
NWaits == 3          \* Wait nodes that may be alive at once
Width == 3           \* bits of an Instant (u32 in the source, scaled down)
MaxStep == 2         \* microseconds the clock gains per system tick, at most
MaxTicksPerPoll == 1 \* system ticks taken while one poll of a task runs, at most
NWaitsIsr == 2       \* Wait nodes alive at once where the tick preempts polls
MaxLen == 130        \* bytes given to one Endpoint::send, at most
MaxEndpoints == 2    \* Endpoint objects of arbitrary addresses alive at once
MaxCalls == 2        \* wakes and spawns one poll of a future makes, at most

Tasks == 1..NTasks
Waits == 1..NWaits
Signals == 1..NSignals
MainTask == CHOOSE t \in Tasks : \A u \in Tasks : t <= u

\* ------------------------------------------------------- program constants
NULL == 0            \* ptr::null_mut()
UNLINKED == 0 - 1    \* usize::MAX as *mut RunQueueNode
None == 0            \* Option::None of Interrupt::poll_fn

VARIABLES
    state,      \* TaskStorage::state of each task
    slot,       \* TaskStorage::fut of each task: "uninit", "valid", "dropped"
    next,       \* RunQueueNode::next of each task's node
    head,       \* RUN_QUEUE.head
    poll_fn,    \* Interrupt::poll_fn of each signal: None or the subscriber
    pendsv,     \* the PendSV pending bit (SCB::set_pendsv)
    irqEnabled, \* PRIMASK clear: interrupts and exceptions may be taken
    stack,      \* the call stack, innermost frame last
    panicked,   \* "none", or the reason the program stopped
    owed,       \* history: enqueue(node) called, stub not yet invoked since
    missed,     \* history: notify found the task Polling, not polled since
    sw,         \* history: a poll that woke itself once and returned Pending
                \*   was made during the drain in progress ("cur") or before
                \*   it ("next"), and the node's stub has not been invoked since
    ran,        \* history: nodes whose stub the current drain has invoked
    NOW,        \* the clock: microseconds since boot, modulo 2^Width
    HEAD,       \* time.rs HEAD: the first Wait of the deadline list, or None
    wait,       \* the Wait nodes: their fields, and st, the node's life
    tick_pc,    \* "idle", or "loop" while the tick handler is in its loop
    polling,    \* the task being polled in task context, or None
    isr_polling,\* the task being polled from within tick's notify, or None
    ticks,      \* system ticks taken during the task-context poll in progress
    sched,      \* the argument of the last hw_schedule call: <<>> or <<t>>
    cmp,        \* the operands of an is_before call, then also its result
    owe,        \* history: microseconds of a delay_us(n) that have not yet
                \*   elapsed since the call
    backend,    \* the chip the USB driver is built for: "rp" or "samd"
    ev,         \* the bus event flagged by the USB hardware and not yet read
    stall,      \* endpoint 0 answers STALL (ep_stall_arm / stallrq)
    avail,      \* per endpoint: the hardware owns the buffer (available /
                \*   bank ready), a packet transfer is armed
    hs,         \* run_device's state: the handler future, or NoHandler
    xfer,       \* per bulk endpoint: "idle", or "inflight" while a transfer
                \*   future exists
    ended,      \* history: how the last control handle's life ended
    lastdrop,   \* history: the last transfer future dropped in flight
    EP_ENABLED, \* usb/mod.rs EP_ENABLED: the bits set in the ownership bitmap
    endpoint,   \* the bulk endpoints whose Endpoint object is alive
    usb_panic,  \* "none", or the message of the panic that stopped the program
    addr,       \* the device address register (addr_endp / dadd)
    lastpoll,   \* history: the event read by the poll of run_device just
                \*   done, whether a handler was in place, and what the poll
                \*   then did; NoPoll after a poll that read no event
    rx,         \* a bulk OUT transfer (Endpoint::receive) and its packets
    tx,         \* an IN transfer (Endpoint::send, ControlIn::respond) and its
                \*   packets; length is the wLength of the control request
    packet,     \* byte 0 (bmRequestType) of the setup packet flagged and not
                \*   yet read; 0 while ev is not a setup packet
    irq,        \* per signal, the hardware behind it: cond, what the
                \*   condition of its Until reads (buffer given back, TRCPT
                \*   set), and pending, its interrupt is asserted
    res         \* history: what the transfer started last on an endpoint
                \*   address used: the wake signal, the hardware endpoint
                \*   and the buffer; NoRes before the first

\* Endpoints: the control endpoint's two directions and one bulk endpoint
\* of each direction
Eps == {"ep0in", "ep0out", "in1", "out1"}
BulkEps == {"in1", "out1"}
Backends == {"rp", "samd"}

\* The endpoint addresses (bit 7 is the direction, IN = 0x80)
EpAddr == [ep0out |-> 0, ep0in |-> 128, out1 |-> 1, in1 |-> 129]

\* ep_enabled_mask: `((ep & 0x0f) << 1) | (ep >> 7)`, the number of the one
\* bit of the mask
ep_enabled_bit(ep) == ((ep % 16) * 2) + (ep \div 128)

\* No poll of run_device yet
NoPoll == [event |-> "none", b0 |-> 0, had |-> FALSE, ops |-> <<>>]

\* No bulk transfer
NoRx == [pc |-> "none", size |-> 0, left |-> 0, total |-> 0, len |-> 0,
         got |-> <<>>, ret |-> 0]
NoTx == [pc |-> "none", len |-> 0, zlp |-> FALSE, arms |-> <<>>, hw |-> <<>>,
         sent |-> <<>>, length |-> 0]

\* No transfer started on an endpoint address yet
NoRes == [ep |-> 0, signal |-> <<>>, hw |-> <<>>, buf |-> <<>>]

\* run_device's `state: None`; req, dir, pc, remaining and calls are those of
\* the handler future and of the control-data handle it holds
NoHandler == [req |-> "none", dir |-> "none", pc |-> "none", remaining |-> 0,
              calls |-> 0]

core == <<state, slot, next, head, poll_fn, pendsv, irqEnabled, panicked>>
hist == <<owed, missed, sw, ran>>
execVars == <<state, slot, next, head, poll_fn, pendsv, irqEnabled, stack,
              panicked, owed, missed, sw, ran>>
timeVars == <<NOW, HEAD, wait, tick_pc, polling, isr_polling, ticks, sched,
              cmp, owe>>
epVars == <<EP_ENABLED, endpoint, usb_panic>>
dataVars == <<rx, tx>>
usbMore == <<epVars, addr, lastpoll, dataVars>>
usbRest == <<backend, ev, stall, avail, hs, xfer, ended, lastdrop, epVars,
             addr, lastpoll, dataVars, packet>>
usbVars == <<usbRest, irq, res>>
notExec == <<timeVars, usbVars>>
notTime == <<execVars, usbVars>>
vars == <<execVars, timeVars, usbVars>>

\* ------------------------------------------------------------ Wait nodes
\* A slot that holds no Wait (never constructed, or dropped and released).
\* st: "free", "new" (constructed, not yet polled), "pending" (its last poll
\* returned Pending), "done" (its poll returned Ready); rt: the task whose
\* future holds the Wait; waker: the poll_fn of the embedded Interrupt;
\* polled: the task's future has polled the Wait during the poll in progress.
NoWait ==
    [st |-> "free", rt |-> None, target |-> 0, prev |-> None, next |-> None,
     linked |-> FALSE, waker |-> None, polled |-> FALSE]

\* ------------------------------------------------------------ call stack
\* fn, pc: the function and the access it is at; t: its task (node);
\* by: its caller; x: its local pointer; w: wakes made by this poll (0, 1, 2+),
\* and in a frame of the four-state cell's poll the polls of the future it
\* has made (1, 2, 3+);
\* isr: TRUE for the outermost frame of an interrupt handler
Frame(fn, pc, t, by) ==
    [fn |-> fn, pc |-> pc, t |-> t, by |-> by, x |-> NULL, w |-> 0, isr |-> FALSE]

Top == stack[Len(stack)]
Rest == SubSeq(stack, 1, Len(stack) - 1)
Running(fn, pc) ==
    /\ panicked = "none"
    /\ stack # <<>>
    /\ Top.fn = fn
    /\ Top.pc = pc
Goto(pc) == stack' = Rest \o <<[Top EXCEPT !.pc = pc]>>
Call(f, ret) == stack' = Rest \o <<[Top EXCEPT !.pc = ret], f>>
TailCall(f) == stack' = Rest \o <<[f EXCEPT !.isr = Top.isr]>>
Return == stack' = Rest

IsrDepth == Cardinality({i \in 1..Len(stack) : stack[i].isr})
InDrain == stack # <<>> /\ stack[1].fn = "run_all"


\* ------------------------------------------------------------------ Init
\* The statics as constructed (RunQueue::new, RunQueueNode::new,
\* TaskStorage::new, Interrupt::new) and the entry point about to run with
\* interrupts masked.
Boot ==
    /\ state = [t \in Tasks |-> "Dead"]
    /\ slot = [t \in Tasks |-> "uninit"]
    /\ next = [t \in Tasks |-> UNLINKED]
    /\ head = NULL
    /\ poll_fn = [s \in Signals |-> None]
    /\ pendsv = FALSE
    /\ irqEnabled = FALSE
    /\ stack = <<Frame("main", "m1", MainTask, "reset")>>
    /\ panicked = "none"
    /\ owed = [t \in Tasks |-> FALSE]
    /\ missed = [t \in Tasks |-> FALSE]
    /\ sw = [t \in Tasks |-> "none"]
    /\ ran = {}
    /\ NOW = 0
    /\ HEAD = None
    /\ wait = [i \in Waits |-> NoWait]
    /\ tick_pc = "idle"
    /\ polling = None
    /\ isr_polling = None
    /\ ticks = 0
    /\ sched = <<>>
    /\ owe = [i \in Waits |-> 0]
    /\ ev = "none"
    /\ stall = FALSE
    /\ avail = [e \in Eps |-> FALSE]
    /\ hs = NoHandler
    /\ xfer = [e \in BulkEps |-> "idle"]
    /\ ended = [how |-> "none", calls |-> 0, stalled |-> FALSE]
    /\ lastdrop = [ep |-> "none", owned |-> FALSE]
    /\ EP_ENABLED = {ep_enabled_bit(EpAddr["ep0out"]), ep_enabled_bit(EpAddr["ep0in"])}
    /\ endpoint = {}
    /\ usb_panic = "none"
    /\ addr = 0
    /\ lastpoll = NoPoll
    /\ rx = NoRx
    /\ tx = NoTx
    /\ packet = 0
    /\ irq = [s \in Signals |-> [cond |-> FALSE, pending |-> FALSE]]
    /\ res = NoRes

Init == Boot /\ cmp = <<>> /\ backend = "rp"

\* ----------------------------------------------------------- entry point
\* main(): pre_init has masked interrupts; __main_task(rt).spawn(rt, hw),
\* whose first statement is self.cancel()
MainSpawn ==
    /\ Running("main", "m1")
    /\ stack' = <<[Top EXCEPT !.pc = "m2"],
                  Frame("spawn", "s2", MainTask, "main"),
                  Frame("cancel", "c1", MainTask, "spawn")>>
    /\ UNCHANGED <<core, hist>>
    /\ UNCHANGED notExec

\* post_init(): interrupt::enable(); loop { wfi() }
PostInit ==
    /\ Running("main", "m2")
    /\ irqEnabled' = TRUE
    /\ Return
    /\ UNCHANGED <<state, slot, next, head, poll_fn, pendsv, panicked, hist>>
    /\ UNCHANGED notExec

\* ------------------------------------------------------------- run queue
\* Mutant of EnqueueCheck: the sentinel test is missing, so a linked node is
\* linked again.
EnqueueUnguarded ==
    /\ Running("enqueue", "e1")
    /\ Goto("e2")
    /\ owed' = [owed EXCEPT ![Top.t] = TRUE]
    /\ UNCHANGED <<core, missed, sw, ran>>
    /\ UNCHANGED notExec

\* RunQueue::enqueue: `if node.next.load() == UNLINKED`
EnqueueCheck ==
    /\ Running("enqueue", "e1")
    /\ IF next[Top.t] = UNLINKED THEN Goto("e2") ELSE Return
    /\ owed' = [owed EXCEPT ![Top.t] = TRUE]
    /\ UNCHANGED <<core, missed, sw, ran>>
    /\ UNCHANGED notExec

\* `let next = self.head.load()`
EnqueueLoadHead ==
    /\ Running("enqueue", "e2")
    /\ stack' = Rest \o <<[Top EXCEPT !.pc = "e3", !.x = head]>>
    /\ UNCHANGED <<core, hist>>
    /\ UNCHANGED notExec

\* `node.next.store(next)`
EnqueueStoreNext ==
    /\ Running("enqueue", "e3")
    /\ next' = [next EXCEPT ![Top.t] = Top.x]
    /\ Goto("e4")
    /\ UNCHANGED <<state, slot, head, poll_fn, pendsv, irqEnabled, panicked, hist>>
    /\ UNCHANGED notExec

\* `self.head.store(node)`
EnqueueStoreHead ==
    /\ Running("enqueue", "e4")
    /\ head' = Top.t
    /\ Return
    /\ UNCHANGED <<state, slot, next, poll_fn, pendsv, irqEnabled, panicked, hist>>
    /\ UNCHANGED notExec

\* RunQueue::run_all: `let head = self.head.load()`
RunAllLoadHead ==
    /\ Running("run_all", "r1")
    /\ stack' = Rest \o <<[Top EXCEPT !.pc = "r2", !.x = head]>>
    /\ UNCHANGED <<core, hist>>
    /\ UNCHANGED notExec

\* `self.head.store(ptr::null_mut())`
RunAllClearHead ==
    /\ Running("run_all", "r2")
    /\ head' = NULL
    /\ Goto("r3")
    /\ UNCHANGED <<state, slot, next, poll_fn, pendsv, irqEnabled, panicked, hist>>
    /\ UNCHANGED notExec

\* `while let Some(node) = next { next = NonNull::new(node.next.load())`.
\* NonNull::new accepts UNLINKED (it is not null): dereferencing it faults.
\* When the loop ends PendSV returns.
RunAllLoadNext ==
    /\ Running("run_all", "r3")
    /\ IF Top.x = NULL
         THEN /\ Return
              /\ sw' = [t \in Tasks |-> IF sw[t] = "cur" THEN "next" ELSE "none"]
              /\ UNCHANGED panicked
         ELSE IF Top.x = UNLINKED
         THEN /\ panicked' = "fault"
              /\ UNCHANGED <<stack, sw>>
         ELSE /\ stack' = Rest \o
                   <<[Top EXCEPT !.pc = "r4", !.t = Top.x, !.x = next[Top.x]]>>
              /\ UNCHANGED <<panicked, sw>>
    /\ UNCHANGED <<state, slot, next, head, poll_fn, pendsv, irqEnabled,
                   owed, missed, ran>>
    /\ UNCHANGED notExec

\* `node.next.store(UNLINKED); (node.func)()`: the stub is the generated
\* Task::poll, which calls storage().poll()
RunAllCallStub ==
    /\ Running("run_all", "r4")
    /\ next' = [next EXCEPT ![Top.t] = UNLINKED]
    /\ Call(Frame("poll", "p1", Top.t, "run_all"), "r3")
    /\ owed' = [owed EXCEPT ![Top.t] = FALSE]
    /\ ran' = ran \cup {Top.t}
    /\ sw' = [sw EXCEPT ![Top.t] = IF @ = "next" THEN "none" ELSE @]
    /\ UNCHANGED <<state, slot, head, poll_fn, pendsv, irqEnabled, panicked,
                   missed>>
    /\ UNCHANGED notExec

\* #[exception] fn PendSV() { RUN_QUEUE.run_all() }: the lowest priority, so
\* taken when nothing else is active; exception entry clears the pending bit.
PendSV ==
    /\ panicked = "none"
    /\ stack = <<>>
    /\ irqEnabled
    /\ pendsv
    /\ pendsv' = FALSE
    /\ stack' = <<Frame("run_all", "r1", NULL, "PendSV")>>
    /\ ran' = {}
    /\ UNCHANGED <<state, slot, next, head, poll_fn, irqEnabled, panicked,
                   owed, missed, sw>>
    /\ UNCHANGED notExec

\* waker_wake, after RUN_QUEUE.enqueue(node) has returned: `SCB::set_pendsv()`
WakerWakePend ==
    /\ Running("waker_wake", "w2")
    /\ pendsv' = TRUE
    /\ Return
    /\ UNCHANGED <<state, slot, next, head, poll_fn, irqEnabled, panicked, hist>>
    /\ UNCHANGED notExec

\* -------------------------------------------------------------- task cell
\* TaskStorage::drop: `drop_in_place((*self.fut.get()).as_mut_ptr())`
\* (dropping a slot that holds no valid future is undefined: the drop goes
\* on, or the program faults)
DropInPlace ==
    /\ Running("drop", "d1")
    /\ \/ /\ slot' = [slot EXCEPT ![Top.t] = "dropped"]
          /\ Goto("d2")
          /\ UNCHANGED panicked
       \/ /\ slot[Top.t] # "valid"
          /\ panicked' = "fault"
          /\ UNCHANGED <<slot, stack>>
    /\ UNCHANGED <<state, next, head, poll_fn, pendsv, irqEnabled,
                   owed, missed, sw, ran>>
    /\ UNCHANGED notExec

\* TaskStorage::drop: `self.state.set(TaskState::Dead)`
DropSetDead ==
    /\ Running("drop", "d2")
    /\ state' = [state EXCEPT ![Top.t] = "Dead"]
    /\ Return
    /\ sw' = [sw EXCEPT ![Top.t] = "none"]
    /\ missed' = [missed EXCEPT ![Top.t] = FALSE]
    /\ UNCHANGED <<slot, next, head, poll_fn, pendsv, irqEnabled, panicked,
                   owed, ran>>
    /\ UNCHANGED notExec

\* Mutant of Cancel: the Polling arm is missing, so a Polling task is dropped
\* like a Running one.
CancelDropsPolling ==
    /\ Running("cancel", "c1")
    /\ IF state[Top.t] = "Dead"
         THEN Return
         ELSE TailCall(Frame("drop", "d1", Top.t, "cancel"))
    /\ UNCHANGED <<core, hist>>
    /\ UNCHANGED notExec

\* TaskStorage::cancel: `match self.state.get()`: Dead => {}, Running =>
\* self.drop(), Polling => panic!("task canceled itself")
Cancel ==
    /\ Running("cancel", "c1")
    /\ CASE state[Top.t] = "Dead" ->
              /\ Return
              /\ UNCHANGED panicked
         [] state[Top.t] = "Running" ->
              /\ TailCall(Frame("drop", "d1", Top.t, "cancel"))
              /\ UNCHANGED panicked
         [] state[Top.t] = "Polling" ->
              /\ panicked' = "task canceled itself"
              /\ UNCHANGED stack
    /\ UNCHANGED <<state, slot, next, head, poll_fn, pendsv, irqEnabled, hist>>
    /\ UNCHANGED notExec

\* TaskStorage::spawn, after self.cancel() has returned:
\* `self.state.set(TaskState::Running)`
SpawnSetRunning ==
    /\ Running("spawn", "s2")
    /\ state' = [state EXCEPT ![Top.t] = "Running"]
    /\ Goto("s3")
    /\ UNCHANGED <<slot, next, head, poll_fn, pendsv, irqEnabled, panicked, hist>>
    /\ UNCHANGED notExec

\* `(*self.fut.get()).write(fut); T::poll()`
SpawnWritePoll ==
    /\ Running("spawn", "s3")
    /\ slot' = [slot EXCEPT ![Top.t] = "valid"]
    /\ TailCall(Frame("poll", "p1", Top.t, "spawn"))
    /\ UNCHANGED <<state, next, head, poll_fn, pendsv, irqEnabled, panicked, hist>>
    /\ UNCHANGED notExec

\* TaskStorage::poll: `if self.state.get() == TaskState::Running`
PollCheck ==
    /\ Running("poll", "p1")
    /\ IF state[Top.t] = "Running" THEN Goto("p2") ELSE Return
    /\ missed' = [missed EXCEPT ![Top.t] =
                    @ \/ (state[Top.t] = "Polling" /\ Top.by = "notify")]
    /\ UNCHANGED <<core, owed, sw, ran>>
    /\ UNCHANGED notExec

\* `self.state.set(TaskState::Polling)`, then assume_init_mut and the waker.
\* assume_init_mut on a slot that holds no valid future is undefined: the
\* poll either goes on as if the bytes were a future, or the program faults.
PollSetPolling ==
    /\ Running("poll", "p2")
    /\ state' = [state EXCEPT ![Top.t] = "Polling"]
    /\ \/ Goto("p3") /\ UNCHANGED panicked
       \/ slot[Top.t] # "valid" /\ panicked' = "fault" /\ UNCHANGED stack
    /\ missed' = [missed EXCEPT ![Top.t] = FALSE]
    /\ UNCHANGED <<slot, next, head, poll_fn, pendsv, irqEnabled,
                   owed, sw, ran>>
    /\ UNCHANGED notExec

\* `fut.as_mut().poll(cx)`: the frame stays at p3 while the future runs; the
\* Body actions are the calls into the runtime the future may make.

\* cx.waker().wake_by_ref(): VTABLE's waker_wake on the task's own node,
\* whose first statement is RUN_QUEUE.enqueue(node)
BodyWake ==
    /\ Running("poll", "p3")
    /\ stack' = Rest \o <<[Top EXCEPT !.w = IF @ < 2 THEN @ + 1 ELSE @],
                          Frame("waker_wake", "w2", Top.t, "body"),
                          Frame("enqueue", "e1", Top.t, "waker_wake")>>
    /\ UNCHANGED <<core, hist>>
    /\ UNCHANGED notExec

\* Interrupt::subscribe: the waker is this executor's, so no panic;
\* `self.poll_fn.set(Some(node.func()))`
Subscribe(s, t) == [poll_fn EXCEPT ![s] = t]

\* Until::poll with the condition false: subscribe(cx.waker()), Pending
BodyUntil(s) ==
    /\ Running("poll", "p3")
    /\ poll_fn' = Subscribe(s, Top.t)
    /\ UNCHANGED <<state, slot, next, head, pendsv, irqEnabled, panicked,
                   stack, hist>>
    /\ UNCHANGED notExec

\* generated handle: `storage().spawn(construct(args))`
BodySpawn(u) ==
    /\ Running("poll", "p3")
    /\ stack' = stack \o <<Frame("spawn", "s2", u, "body"),
                           Frame("cancel", "c1", u, "spawn")>>
    /\ UNCHANGED <<core, hist>>
    /\ UNCHANGED notExec

\* generated handle: `storage().cancel()`
BodyCancel(u) ==
    /\ Running("poll", "p3")
    /\ stack' = Append(stack, Frame("cancel", "c1", u, "body"))
    /\ UNCHANGED <<core, hist>>
    /\ UNCHANGED notExec

\* `Poll::Ready(_) => { drop(fut); self.drop() }`: drop(fut) releases the
\* Pin<&mut>, self.drop() begins with drop_in_place
PollReady ==
    /\ Running("poll", "p3")
    /\ slot' = [slot EXCEPT ![Top.t] = "dropped"]
    /\ TailCall(Frame("drop", "d2", Top.t, "poll"))
    /\ UNCHANGED <<state, next, head, poll_fn, pendsv, irqEnabled, panicked,
                   owed, missed, sw, ran>>
    /\ UNCHANGED notExec

\* `Poll::Pending => self.state.set(TaskState::Running)`
PollPending ==
    /\ Running("poll", "p3")
    /\ state' = [state EXCEPT ![Top.t] = "Running"]
    /\ Return
    /\ sw' = [sw EXCEPT ![Top.t] =
                IF Top.w = 1 THEN (IF InDrain THEN "cur" ELSE "next") ELSE @]
    /\ UNCHANGED <<slot, next, head, poll_fn, pendsv, irqEnabled, panicked,
                   owed, missed, ran>>
    /\ UNCHANGED notExec

\* ------------------------------------------------------- interrupt signal
\* An interrupt handler made by isr! (or SysTick): taken whenever interrupts
\* are enabled, on top of whatever is running.  Its body is
\* Interrupt::notify: `if let Some(poll) = self.poll_fn.take() { poll() }`.
\* With no subscriber the handler returns having changed nothing.  The
\* frame of the poll keeps the signal in x.
Notify(s) ==
    /\ panicked = "none"
    /\ irqEnabled
    /\ IsrDepth < MaxIsrNest
    /\ IF poll_fn[s] = None
         THEN UNCHANGED <<poll_fn, stack>>
         ELSE /\ poll_fn' = [poll_fn EXCEPT ![s] = None]
              /\ stack' = Append(stack,
                    [Frame("poll", "p1", poll_fn[s], "notify")
                        EXCEPT !.isr = TRUE, !.x = s])
    /\ UNCHANGED <<state, slot, next, head, pendsv, irqEnabled, panicked, hist>>
    /\ UNCHANGED notExec

\* ------------------------------------------------------------ Until
\* The hardware finishes what the task waits for (the buffer of the
\* endpoint is given back): the condition of the Until reads true from now
\* on, and the interrupt is raised.
HwDone(s) ==
    /\ panicked = "none"
    /\ ~irq[s].cond
    /\ irq' = [irq EXCEPT ![s] = [cond |-> TRUE, pending |-> TRUE]]
    /\ UNCHANGED <<execVars, timeVars, usbRest, res>>

\* USBCTRL_IRQ, taken when its interrupt is pending, on top of whatever is
\* running: it writes buff_status back, which clears the interrupt, and
\* calls notify of the signal of the endpoint.
Isr(s) ==
    /\ panicked = "none"
    /\ irqEnabled
    /\ IsrDepth < MaxIsrNest
    /\ irq[s].pending
    /\ irq' = [irq EXCEPT ![s].pending = FALSE]
    /\ IF poll_fn[s] = None
         THEN UNCHANGED <<poll_fn, stack>>
         ELSE /\ poll_fn' = [poll_fn EXCEPT ![s] = None]
              /\ stack' = Append(stack,
                    [Frame("poll", "p1", poll_fn[s], "notify")
                        EXCEPT !.isr = TRUE, !.x = s])
    /\ UNCHANGED <<state, slot, next, head, pendsv, irqEnabled, panicked, hist>>
    /\ UNCHANGED <<timeVars, usbRest, res>>

\* Until::poll, `if (self.condition)()` reading false: the else branch is
\* entered, subscribe not yet called
UntilCheck(s) ==
    /\ Running("poll", "p3")
    /\ ~irq[s].cond
    /\ Goto("u2")
    /\ UNCHANGED <<core, hist>>
    /\ UNCHANGED notExec

\* Until::poll, the condition reading true: Poll::Ready(()), with which the
\* future of the task completes
UntilReady(s) ==
    /\ irq[s].cond
    /\ PollReady

\* Until::poll: `self.interrupt.subscribe(cx.waker())`
UntilSubscribe(s) ==
    /\ Running("poll", "u2")
    /\ poll_fn' = Subscribe(s, Top.t)
    /\ Goto("u3")
    /\ UNCHANGED <<state, slot, next, head, pendsv, irqEnabled, panicked, hist>>
    /\ UNCHANGED notExec

\* Until::poll: Poll::Pending, which the future returns to TaskStorage::poll:
\* `Poll::Pending => self.state.set(TaskState::Running)`
UntilPending ==
    /\ Running("poll", "u3")
    /\ state' = [state EXCEPT ![Top.t] = "Running"]
    /\ Return
    /\ sw' = [sw EXCEPT ![Top.t] =
                IF Top.w = 1 THEN (IF InDrain THEN "cur" ELSE "next") ELSE @]
    /\ UNCHANGED <<slot, next, head, poll_fn, pendsv, irqEnabled, panicked,
                   owed, missed, ran>>
    /\ UNCHANGED notExec

\* One task that awaits signal.until(condition), may wake itself, and ends
\* when the wait completes
UntilNext ==
    \/ MainSpawn
    \/ PostInit
    \/ EnqueueCheck
    \/ EnqueueLoadHead
    \/ EnqueueStoreNext
    \/ EnqueueStoreHead
    \/ RunAllLoadHead
    \/ RunAllClearHead
    \/ RunAllLoadNext
    \/ RunAllCallStub
    \/ PendSV
    \/ WakerWakePend
    \/ DropSetDead
    \/ Cancel
    \/ SpawnSetRunning
    \/ SpawnWritePoll
    \/ PollCheck
    \/ PollSetPolling
    \/ BodyWake
    \/ \E s \in Signals : UntilCheck(s)
    \/ \E s \in Signals : UntilReady(s)
    \/ \E s \in Signals : UntilSubscribe(s)
    \/ UntilPending
    \/ \E s \in Signals : HwDone(s)
    \/ \E s \in Signals : Isr(s)

UntilSpec == Init /\ [][UntilNext]_vars

\* ------------------------------------------------------------------- Next
Next ==
    \/ MainSpawn
    \/ PostInit
    \/ EnqueueCheck
    \/ EnqueueLoadHead
    \/ EnqueueStoreNext
    \/ EnqueueStoreHead
    \/ RunAllLoadHead
    \/ RunAllClearHead
    \/ RunAllLoadNext
    \/ RunAllCallStub
    \/ PendSV
    \/ WakerWakePend
    \/ DropInPlace
    \/ DropSetDead
    \/ Cancel
    \/ SpawnSetRunning
    \/ SpawnWritePoll
    \/ PollCheck
    \/ PollSetPolling
    \/ BodyWake
    \/ \E s \in Signals : BodyUntil(s)
    \/ \E u \in Tasks : BodySpawn(u)
    \/ \E u \in Tasks : BodyCancel(u)
    \/ PollReady
    \/ PollPending
    \/ \E s \in Signals : Notify(s)

Spec == Init /\ [][Next]_vars

\* ======================================================================
\* Properties
\* ======================================================================

\* The nodes a drain starting now would walk: those reachable from head.
RECURSIVE ReachFrom(_, _)
ReachFrom(n, seen) ==
    IF n \in Tasks /\ n \notin seen THEN ReachFrom(next[n], seen \cup {n}) ELSE seen
Queued == ReachFrom(head, {})

\* Nothing is running: the processor sleeps in wfi.
Idle == stack = <<>> /\ panicked = "none"

\* This step is run_all invoking the stub of node t.
StubInvoked(t) ==
    /\ Running("run_all", "r4")
    /\ Top.t = t
    /\ Len(stack') = Len(stack) + 1
    /\ stack'[Len(stack')].by = "run_all"

\* This step is run_all (and PendSV) returning.
DrainReturns == Running("run_all", "r3") /\ stack' = <<>>

\* The innermost frame took this step (no handler was entered instead).
TopStepped == Len(stack') <= Len(stack) /\ <<stack, panicked>>' # <<stack, panicked>>

\* C1: no enqueue is lost.  Whenever the processor is idle, every node on
\* which enqueue has been called and whose stub has not been invoked since
\* is reachable from head, so that the next drain invokes it.
C1_NoEnqueueLost == Idle => \A t \in Tasks : owed[t] => t \in Queued

\* C2: a notify that finds its subscriber Polling is not lost.  Whenever the
\* processor is idle, a task that was notified during a poll which then
\* returned Pending, and has not been polled since, is queued for a poll.
C2_WakeupDuringPollNotLost == Idle => \A t \in Tasks : missed[t] => t \in Queued

\* C3: notify never runs a task's poll in the handler's context: no poll
\* frame is called from notify, and none runs inside an interrupt handler.
C3_NotifyNeverPolls ==
    \A i \in 1..Len(stack) :
        stack[i].fn = "poll" =>
            /\ stack[i].by # "notify"
            /\ \A j \in 1..i : ~stack[j].isr

\* C4: wherever poll(t) can be entered (a handler whose signal holds t's
\* subscription can be taken), t's slot holds a valid future if and only if
\* t's state is Running or Polling.
C4_SlotValidIffLive ==
    \A t \in Tasks :
        (\E s \in Signals : poll_fn[s] = t /\ ENABLED Notify(s)) =>
            (slot[t] = "valid" <=> state[t] \in {"Running", "Polling"})

\* C5: a task that woke itself exactly once during a poll and returned
\* Pending does not have its stub invoked again by the drain in progress,
\* and the next drain does not return without having invoked it.
C5_SelfWakePolledNextDrain ==
    [][/\ \A t \in Tasks : StubInvoked(t) => sw[t] # "cur"
       /\ DrainReturns => \A t \in Tasks : sw[t] # "next"]_vars

C7_PollsNeverNest == Cardinality({t \in Tasks : state[t] = "Polling"}) <= 1

\* C8: spawn does not poll the new computation itself: no poll is entered
\* from spawn.
C8_SpawnDoesNotPoll ==
    \A i \in 1..Len(stack) : ~(stack[i].fn = "poll" /\ stack[i].by = "spawn")

\* C9: cancel on a Polling task panics without touching the slot or the
\* state; cancel on a Dead task returns having changed nothing.
C9_CancelPollingPanics ==
    [][(Running("cancel", "c1") /\ TopStepped) =>
         /\ state[Top.t] = "Polling" =>
              /\ panicked' = "task canceled itself"
              /\ slot' = slot
              /\ state' = state
         /\ state[Top.t] = "Dead" =>
              /\ stack' = Rest
              /\ <<core, hist>>' = <<core, hist>>]_vars

\* C9 witness: a task has cancelled (or respawned) the task being polled,
\* whose future is still in its slot, and the program has panicked.
C9_Witness ==
    /\ panicked = "task canceled itself"
    /\ Top.fn = "cancel"
    /\ state[Top.t] = "Polling"
    /\ slot[Top.t] = "valid"

\* C10: an until() on a signal that holds the subscription of another task
\* that is still suspended panics and leaves that subscription in place.
C10_DoubleSubscribePanics ==
    [][\A s \in Signals :
         (/\ BodyUntil(s)
          /\ poll_fn[s] \notin {None, Top.t}
          /\ state[poll_fn[s]] = "Running")
            => (panicked' # "none" /\ poll_fn' = poll_fn)]_vars

\* ======================================================================
\* Timer service (src/src/time.rs)
\*
\* The Wait operations (construction, poll with its link, drop) and the
\* iterations of tick's loop are each one step.  The system tick handler may
\* be taken between any two of a task's Wait operations.  Interrupt::notify
\* calls the subscriber's poll function, so the task's poll runs nested in
\* tick's loop; TaskStorage::poll does nothing for a task that is not
\* Running, that is, for the task whose poll the handler has preempted.
\* ======================================================================
Modulus == 2 ^ Width
Half == 2 ^ (Width - 1)         \* 0x8000_0000
Instants == 0 .. Modulus - 1

wrapping_sub(a, b) == (a + Modulus - b) % Modulus
wrapping_add(a, b) == (a + b) % Modulus

\* Mutant of is_before: the operands of the subtraction are exchanged.
is_before_swapped(self, other) == ~(wrapping_sub(self, other) > Half)

\* Instant::is_before: `!(other.0.wrapping_sub(self.0) > 0x8000_0000)`
is_before(self, other) == ~(wrapping_sub(other, self) > Half)

\* Instant::add_us
add_us(self, us) == wrapping_add(self, us)

\* The task whose future is running: the one polled from tick's notify, or
\* the one polled in task context unless the tick handler has preempted it.
Active ==
    IF isr_polling # None THEN isr_polling
    ELSE IF tick_pc = "idle" THEN polling
    ELSE None

\* schedule(): the target of the first Wait, if any, is passed to hw_schedule
schedule(w, h) == IF h = None THEN <<>> ELSE <<w[h].target>>

\* The cell `node_ref` refers to: HEAD (ref = None) or the next field of ref
NodeRef(w, h, ref) == IF ref = None THEN h ELSE w[ref].next

\* The `while let` loop of Wait::link: where it stops.  hit is the node
\* before which self goes (the loop left through `break`), or None.
RECURSIVE LinkScan(_, _, _, _, _)
LinkScan(self, w, h, ref, prev) ==
    LET node == NodeRef(w, h, ref) IN
    IF node = None THEN [ref |-> ref, prev |-> prev, hit |-> None]
    ELSE IF is_before(w[self].target, w[node].target)
    THEN [ref |-> ref, prev |-> prev, hit |-> node]
    ELSE LinkScan(self, w, h, node, node)

\* Mutant of link: the node is always put at the front of the list.
link_at_head(self, w, h) ==
    IF w[self].linked THEN [w |-> w, h |-> h, s |-> <<>>, called |-> FALSE]
    ELSE LET w1 == IF h # None THEN [w EXCEPT ![h].prev = self] ELSE w
             w2 == [w1 EXCEPT ![self].prev = None, ![self].next = h,
                              ![self].linked = TRUE]
         IN [w |-> w2, h |-> self, s |-> schedule(w2, self), called |-> TRUE]

\* Mutant of link: the node that follows the new one keeps its old prev.
link_no_back(self, w, h) ==
    IF w[self].linked THEN [w |-> w, h |-> h, s |-> <<>>, called |-> FALSE]
    ELSE LET at == LinkScan(self, w, h, None, None)
             w2 == [w EXCEPT ![self].prev = at.prev,
                             ![self].next = NodeRef(w, h, at.ref)]
             w3 == IF at.ref = None THEN w2 ELSE [w2 EXCEPT ![at.ref].next = self]
             h3 == IF at.ref = None THEN self ELSE h
             w4 == [w3 EXCEPT ![self].linked = TRUE]
         IN [w |-> w4, h |-> h3, s |-> schedule(w4, h3), called |-> TRUE]

\* Wait::link.  The result: the nodes, HEAD, and the argument of the
\* hw_schedule call if schedule was called.
link(self, w, h) ==
    IF w[self].linked THEN [w |-> w, h |-> h, s |-> <<>>, called |-> FALSE]
    ELSE LET at == LinkScan(self, w, h, None, None)
             w1 == IF at.hit # None THEN [w EXCEPT ![at.hit].prev = self] ELSE w
             w2 == [w1 EXCEPT ![self].prev = at.prev,
                              ![self].next = NodeRef(w1, h, at.ref)]
             w3 == IF at.ref = None THEN w2 ELSE [w2 EXCEPT ![at.ref].next = self]
             h3 == IF at.ref = None THEN self ELSE h
             w4 == [w3 EXCEPT ![self].linked = TRUE]
         IN [w |-> w4, h |-> h3, s |-> schedule(w4, h3), called |-> TRUE]

\* Mutant of drop: the Wait is released without being unlinked.
drop_forgets(self, w, h) ==
    [w |-> [w EXCEPT ![self] = NoWait], h |-> h, s |-> <<>>, called |-> FALSE]

\* Drop for Wait, and the release of its memory.
drop(self, w, h) ==
    IF ~w[self].linked
    THEN [w |-> [w EXCEPT ![self] = NoWait], h |-> h, s |-> <<>>, called |-> FALSE]
    ELSE LET p == w[self].prev
             n == w[self].next
             w1 == IF p # None THEN [w EXCEPT ![p].next = n] ELSE w
             h1 == IF p # None THEN h ELSE n
             w2 == IF n # None THEN [w1 EXCEPT ![n].prev = p] ELSE w1
         IN [w |-> [w2 EXCEPT ![self] = NoWait], h |-> h1,
             s |-> schedule(w1, h1), called |-> p = None]

\* TaskStorage::drop of a task's future: every Wait it holds is dropped.
RECURSIVE DropAll(_, _)
DropAll(S, r) ==
    IF S = {} THEN r
    ELSE LET i == CHOOSE x \in S : \A y \in S : x <= y
             d == drop(i, r.w, r.h)
         IN DropAll(S \ {i},
                [w |-> d.w, h |-> d.h,
                 s |-> IF d.called THEN d.s ELSE r.s,
                 called |-> d.called \/ r.called])

\* The future of the running task has a completed Wait still to drop: the
\* `.await` (or select) that polled it drops it before the future goes on.
Completed == \E i \in Waits : wait[i].st = "done" /\ wait[i].rt = Active

\* The slot a new Wait is constructed in
FreeSlot(i) == wait[i].st = "free" /\ \A j \in Waits : wait[j].st = "free" => i <= j

\* ----------------------------------------------------------- task context
\* The executor polls task t (from a drain or from spawn): its future runs.
TaskPoll(t) ==
    /\ tick_pc = "idle"
    /\ polling = None
    /\ polling' = t
    /\ ticks' = 0
    /\ UNCHANGED <<NOW, HEAD, wait, tick_pc, isr_polling, sched, cmp, owe>>
    /\ UNCHANGED notTime

\* The future of the running task returns Pending from its poll.  A poll
\* of the task polls each future it is awaiting (`rt.delay_us(n).await`, the
\* branches of a select) once, and a future that has completed is dropped
\* by the `.await` that polled it: when the poll returns, every Wait the
\* task holds has been polled and is pending.
TaskPollReturn ==
    /\ Active # None
    /\ \A i \in Waits :
           wait[i].rt = Active => wait[i].st = "pending" /\ wait[i].polled
    /\ wait' = [i \in Waits |->
                  IF wait[i].rt = Active THEN [wait[i] EXCEPT !.polled = FALSE]
                  ELSE wait[i]]
    /\ IF isr_polling # None
         THEN isr_polling' = None /\ UNCHANGED polling
         ELSE polling' = None /\ UNCHANGED isr_polling
    /\ UNCHANGED <<NOW, ticks, HEAD, tick_pc, sched, cmp, owe>>
    /\ UNCHANGED notTime

\* Wait::new(rt, target), constructed in slot i by task t
Wait_new(i, t, target, w) ==
    [w EXCEPT ![i] = [NoWait EXCEPT !.st = "new", !.rt = t, !.target = target]]

\* Wait::poll with the waker of task cx.  The result: the nodes, HEAD, and
\* the argument of the hw_schedule call if schedule was called.
Wait_poll(self, cx, w, h) ==
    IF is_before(w[self].target, NOW)
    THEN [w |-> [w EXCEPT ![self].st = "done", ![self].polled = TRUE],
          h |-> h, s |-> <<>>, called |-> FALSE]
    ELSE LET l == link(self, [w EXCEPT ![self].waker = cx], h)
         IN [w |-> [l.w EXCEPT ![self].st = "pending", ![self].polled = TRUE],
             h |-> l.h, s |-> l.s, called |-> l.called]

\* `rt.delay_us(us).await`, or a select with the branch rt.delay_us(us):
\* Runtime::delay_us constructs the Wait with the target now + us and the
\* future of the running task polls it for the first time.  (Every target
\* that delay_until can be given is now + us for some us.)
delay_us(i, us) ==
    /\ FreeSlot(i)
    /\ Active # None
    /\ ~Completed
    /\ LET r == Wait_poll(i, Active, Wait_new(i, Active, add_us(NOW, us), wait), HEAD)
       IN /\ wait' = r.w
          /\ HEAD' = r.h
          /\ sched' = IF r.called THEN r.s ELSE sched
    /\ owe' = [owe EXCEPT ![i] = us]
    /\ UNCHANGED <<NOW, ticks, tick_pc, polling, isr_polling, cmp>>
    /\ UNCHANGED notTime

\* Wait::poll of a pending Wait, by the future of the task that holds it
WaitPoll(i) ==
    /\ Active # None
    /\ wait[i].rt = Active
    /\ wait[i].st = "pending"
    /\ ~wait[i].polled
    /\ ~Completed
    /\ LET r == Wait_poll(i, Active, wait, HEAD)
       IN /\ wait' = r.w
          /\ HEAD' = r.h
          /\ sched' = IF r.called THEN r.s ELSE sched
    /\ UNCHANGED <<NOW, ticks, tick_pc, polling, isr_polling, cmp, owe>>
    /\ UNCHANGED notTime

\* The future of the running task drops one of its Waits (it completed, or
\* it is the losing branch of a select).
WaitDrop(i) ==
    /\ Active # None
    /\ wait[i].rt = Active
    /\ wait[i].st # "free"
    /\ LET d == drop(i, wait, HEAD)
       IN /\ wait' = d.w
          /\ HEAD' = d.h
          /\ sched' = IF d.called THEN d.s ELSE sched
    /\ owe' = [owe EXCEPT ![i] = 0]
    /\ UNCHANGED <<NOW, ticks, tick_pc, polling, isr_polling, cmp>>
    /\ UNCHANGED notTime

\* The running task cancels task u, which is not being polled:
\* TaskStorage::cancel drops u's future and with it every Wait it holds.
TaskCancel(u) ==
    /\ Active # None
    /\ ~Completed
    /\ u # Active
    /\ u # polling
    /\ \E i \in Waits : wait[i].rt = u
    /\ LET mine == {i \in Waits : wait[i].rt = u}
           d == DropAll(mine, [w |-> wait, h |-> HEAD, s |-> sched, called |-> FALSE])
       IN /\ wait' = d.w
          /\ HEAD' = d.h
          /\ sched' = d.s
          /\ owe' = [i \in Waits |-> IF i \in mine THEN 0 ELSE owe[i]]
    /\ UNCHANGED <<NOW, ticks, tick_pc, polling, isr_polling, cmp>>
    /\ UNCHANGED notTime

\* ------------------------------------------------------------ system tick
\* The system tick handler, taken while no task is being polled: the clock
\* gains k microseconds and tick(now) is called.
SysTick(k) ==
    /\ tick_pc = "idle"
    /\ polling = None
    /\ NOW' = wrapping_add(NOW, k)
    /\ tick_pc' = "loop"
    /\ owe' = [i \in Waits |-> IF owe[i] > k THEN owe[i] - k ELSE 0]
    /\ UNCHANGED <<HEAD, wait, polling, isr_polling, ticks, sched, cmp>>
    /\ UNCHANGED notTime

\* The system tick handler, taken between two Wait operations of the task
\* being polled in task context (the handler preempts the poll).
SysTickPreempt(k) ==
    /\ tick_pc = "idle"
    /\ polling # None
    /\ ticks < MaxTicksPerPoll
    /\ ticks' = ticks + 1
    /\ NOW' = wrapping_add(NOW, k)
    /\ tick_pc' = "loop"
    /\ owe' = [i \in Waits |-> IF owe[i] > k THEN owe[i] - k ELSE 0]
    /\ UNCHANGED <<HEAD, wait, polling, isr_polling, sched, cmp>>
    /\ UNCHANGED notTime

\* One iteration of tick's loop that does not break: the first node is
\* unlinked and its signal notified.  Interrupt::notify takes poll_fn and
\* calls it; TaskStorage::poll runs the future only if the task is Running.
TickPop ==
    /\ tick_pc = "loop"
    /\ isr_polling = None
    /\ HEAD # None
    /\ ~is_before(NOW, wait[HEAD].target)
    /\ LET node == HEAD
           nx == wait[node].next
           w1 == IF nx # None THEN [wait EXCEPT ![nx].prev = None] ELSE wait
           poll == wait[node].waker
           runs == poll # None /\ poll # polling
       IN /\ HEAD' = nx
          /\ wait' = [w1 EXCEPT ![node].linked = FALSE, ![node].waker = None]
          /\ isr_polling' = IF runs THEN poll ELSE None
    /\ UNCHANGED <<NOW, ticks, tick_pc, polling, sched, cmp, owe>>
    /\ UNCHANGED notTime

\* tick's loop ends (the list is empty, or `now.is_before(node.target)`):
\* schedule(rt), and the handler returns.
TickReturn ==
    /\ tick_pc = "loop"
    /\ isr_polling = None
    /\ HEAD # None => is_before(NOW, wait[HEAD].target)
    /\ tick_pc' = "idle"
    /\ sched' = schedule(wait, HEAD)
    /\ UNCHANGED <<NOW, ticks, HEAD, wait, polling, isr_polling, cmp, owe>>
    /\ UNCHANGED notTime

\* The delays asked for where three Waits are alive at once: none, the
\* shortest, those either side of half the range of an Instant, the longest
Delays == {0, 1, Half - 1, Half, Modulus - 1}

TimerNext ==
    \/ \E t \in Tasks : TaskPoll(t)
    \/ TaskPollReturn
    \/ \E i \in {j \in Waits : FreeSlot(j)}, us \in Delays : delay_us(i, us)
    \/ \E i \in Waits : WaitPoll(i)
    \/ \E i \in Waits : WaitDrop(i)
    \/ \E u \in Tasks : TaskCancel(u)
    \/ \E k \in 1..MaxStep : SysTick(k)
    \/ TickPop
    \/ TickReturn

\* The timer's operations one after another: the system tick is taken
\* between polls.
TimerSpec == Init /\ [][TimerNext]_vars

\* The timer with the system tick handler preempting polls.
TimerIsrNext ==
    \/ \E t \in Tasks : TaskPoll(t)
    \/ TaskPollReturn
    \/ \E i \in {j \in 1..NWaitsIsr : FreeSlot(j)}, us \in Instants :
          delay_us(i, us)
    \/ \E i \in Waits : WaitPoll(i)
    \/ \E i \in Waits : WaitDrop(i)
    \/ \E u \in Tasks : TaskCancel(u)
    \/ \E k \in 1..MaxStep : SysTick(k)
    \/ \E k \in 1..MaxStep : SysTickPreempt(k)
    \/ TickPop
    \/ TickReturn

TimerIsrSpec == Init /\ [][TimerIsrNext]_vars

\* ---------------------------------------------------------------- Instant
\* Instant::is_before applied to every pair of instants: cmp starts as the
\* pair of operands <<a, b>> and the call adds its result.
InstantInit == Boot /\ backend = "rp" /\ cmp \in {<<a, b>> : a, b \in Instants}

IsBeforeCall ==
    /\ Len(cmp) = 2
    /\ cmp' = <<cmp[1], cmp[2], is_before(cmp[1], cmp[2])>>
    /\ UNCHANGED <<NOW, HEAD, wait, tick_pc, polling, isr_polling, ticks, sched, owe>>
    /\ UNCHANGED notTime

InstantSpec == InstantInit /\ [][IsBeforeCall]_vars

\* ------------------------------------------------------- timer properties
\* The nodes met walking the deadline list of nodes w from h along next
RECURSIVE ListFrom(_, _, _)
ListFrom(w, n, seen) ==
    IF n = None \/ n \in seen THEN <<>>
    ELSE <<n>> \o ListFrom(w, w[n].next, seen \cup {n})
List == ListFrom(wait, HEAD, {})

\* The nodes reachable from h through next and prev pointers
RECURSIVE ReachWait(_, _, _)
ReachWait(w, todo, seen) ==
    IF todo = {} THEN seen
    ELSE LET n == CHOOSE x \in todo : TRUE
             more == ({w[n].next, w[n].prev} \ {None}) \ (seen \cup {n})
         IN ReachWait(w, (todo \ {n}) \cup more, seen \cup {n})
ReachableWaits(w, h) == IF h = None THEN {} ELSE ReachWait(w, {h}, {})

\* b is later than a by less than half the range
StrictlyBefore(a, b) == (b - a) % Modulus \in 1 .. (Half - 1)

\* The targets of the linked Waits of nodes w lie within one half-range window
InWindow(w) ==
    \E base \in Instants :
        \A i \in Waits : w[i].linked => (w[i].target - base) % Modulus < Half

\* Walking the list of nodes w from h, no node is followed, at any distance,
\* by one whose target is earlier.
Sorted(w, h) ==
    LET l == ListFrom(w, h, {})
    IN \A p, q \in 1..Len(l) :
           p < q => (w[l[q]].target - w[l[p]].target) % Modulus < Half

\* No handler is running and no task is being polled
TimerIdle == tick_pc = "idle" /\ polling = None /\ isr_polling = None

\* This step is an iteration of tick's loop unlinking the first node.
TickPopped == tick_pc = "loop" /\ isr_polling = None /\ HEAD' # HEAD

\* C11: a.is_before(b) is true exactly when (b - a) mod 2^Width is less than
\* half the range, and false for every other difference.
C11_IsBeforeHalfRange ==
    Len(cmp) = 3 => (cmp[3] <=> ((cmp[2] - cmp[1]) % Modulus < Half))

C13_ReadyOnlyAtOrAfterTarget ==
    \A i \in Waits : wait[i].st = "done" => ~StrictlyBefore(NOW, wait[i].target)

\* C13 witness: a Wait that was pending (the time its delay_us asked for has
\* elapsed on the clock since) has been polled again and returned Ready.
C13_Witness ==
    \E i \in Waits :
        /\ wait[i].st = "done"
        /\ wait[i].target # NOW
        /\ owe[i] = 0

\* C14: a Wait made by delay_us(n) does not complete before n microseconds
\* have elapsed on the clock since the call, for every n.
C14_DelayUsElapsed == \A i \in Waits : wait[i].st = "done" => owe[i] = 0

\* C15: a Wait dropped while linked is spliced out before its memory is
\* released: after the step no released Wait is reachable from HEAD through
\* next or prev pointers, and the list is the old list without the dropped
\* nodes, in the same order.
C15_DropUnlinks ==
    [][LET gone == {i \in Waits : wait[i].linked /\ wait'[i].st = "free"}
           Stays(i) == i \notin gone
       IN gone # {} =>
            /\ \A i \in ReachableWaits(wait', HEAD') : wait'[i].st # "free"
            /\ ListFrom(wait', HEAD', {}) = SelectSeq(List, Stays)]_vars

\* C15 witness: one branch of a select has completed, and the losing branch,
\* about to be dropped, is a Wait linked between two others.
C15_Witness ==
    \E i, j \in Waits :
        /\ Active # None
        /\ wait[i].rt = Active /\ wait[j].rt = Active
        /\ wait[j].st = "done"
        /\ wait[i].linked
        /\ wait[i].prev # None /\ wait[i].next # None

\* C16: of two pending Waits of different tasks, the one with the earlier
\* target is notified no later than the other: tick never notifies a Wait
\* while a Wait of another task with an earlier target is still linked.
C16_EarlierTargetFirst ==
    [][TickPopped =>
          \A i \in Waits :
              (wait[i].linked /\ wait[i].rt # wait[HEAD].rt)
                  => ~StrictlyBefore(wait[i].target, wait[HEAD].target)]_vars

\* C17: a pending Wait whose task stays alive is eventually completed.
\* Whenever nothing is running, every pending Wait is linked and holds its
\* task's subscription, so that the tick that passes its target polls the
\* task; a pending Wait that is neither will never be polled by the timer.
C17_PendingWaitCompletes ==
    TimerIdle =>
        \A i \in Waits :
            wait[i].st = "pending" => wait[i].linked /\ wait[i].waker = wait[i].rt

\* -------------------------------------------------------------------- usb
\* The setup packets the host sends: an IN request, an OUT request with a
\* data stage, an OUT request without one, the standard device request
\* SET_ADDRESS, a packet Setup::parse refuses, and the standard requests
\* SET_CONFIGURATION (to the device) and SET_INTERFACE (to an interface).
SetupKinds == {"setup_in", "setup_out", "setup_out0", "setup_addr", "setup_bad",
               "setup_config", "setup_iface"}

\* The two requests answered by what a method of the handler returns
ResultKinds == {"setup_config", "setup_iface"}

\* Byte 0 of the setup packet of each kind: a vendor request to the device,
\* IN or OUT, the standard device request, and a packet whose type field
\* holds the reserved value 3
bmRequestType == [setup_in |-> 192, setup_out |-> 64, setup_out0 |-> 64,
                  setup_addr |-> 0, setup_bad |-> 96, setup_config |-> 0,
                  setup_iface |-> 1]

\* usb::request_type: the fields of bmRequestType
RECIPIENT_MASK == 31
REQUEST_TYPE_MASK == 96
DIRECTION_MASK == 128

\* `x & mask` for the three masks above
And(x, mask) ==
    CASE mask = RECIPIENT_MASK -> x % 32
      [] mask = REQUEST_TYPE_MASK -> ((x \div 32) % 4) * 32
      [] mask = DIRECTION_MASK -> (x \div 128) * 128

\* What a failed parse returns
ParseErr == [ok |-> FALSE, recipient |-> "none", ty |-> "none", dir |-> "none"]

\* A parse that takes every recipient value
parse_any_recipient(b0) ==
    LET rc == And(b0, RECIPIENT_MASK)
        ty == And(b0, REQUEST_TYPE_MASK)
    IN IF ty \notin {0, 32, 64} THEN ParseErr
       ELSE [ok |-> TRUE,
             recipient |-> CASE rc = 0 -> "Device" [] rc = 1 -> "Interface"
                             [] rc = 2 -> "Endpoint" [] OTHER -> "Other",
             ty |-> CASE ty = 0 -> "Standard" [] ty = 32 -> "Class"
                      [] OTHER -> "Vendor",
             dir |-> IF And(b0, DIRECTION_MASK) = 0 THEN "out" ELSE "in"]

\* Setup::parse, on byte 0 of the packet: the `return Err(())` of the two
\* matches, then the direction that picks ControlData::Out or ::In
parse(b0) ==
    LET rc == And(b0, RECIPIENT_MASK)
        ty == And(b0, REQUEST_TYPE_MASK)
    IN IF rc \notin {0, 1, 2, 3} THEN ParseErr
       ELSE IF ty \notin {0, 32, 64} THEN ParseErr
       ELSE [ok |-> TRUE,
             recipient |-> CASE rc = 0 -> "Device" [] rc = 1 -> "Interface"
                             [] rc = 2 -> "Endpoint" [] OTHER -> "Other",
             ty |-> CASE ty = 0 -> "Standard" [] ty = 32 -> "Class"
                      [] OTHER -> "Vendor",
             dir |-> IF And(b0, DIRECTION_MASK) = 0 THEN "out" ELSE "in"]

\* The wValue of the SET_ADDRESS request the host sends
NewAddr == 5

\* The endpoint state and the histories, threaded through the statements of
\* one poll
Hw == [stall |-> stall, avail |-> avail, ended |-> ended, lastdrop |-> lastdrop,
       addr |-> addr]

\* The guard left out: dropping the transfer touches nothing.
cancel_nothing(u, e) == u

\* rp: UsbShared::cancel_on_drop (abort, wait for abort_done, clear available
\* and full); samd: the scopeguard::defer! of transfer_in / transfer_out
cancel_on_drop(u, e) == [u EXCEPT !.avail[e] = FALSE]

\* Whether the future of a packet transfer on endpoint e holds the guard:
\* transfer_in and transfer_out do on both chips; ep0_transfer_out is
\* transfer_out on samd and out_packet, which has none, on rp.
HasGuard(e) == e # "ep0out" \/ backend = "samd"

\* Drop of a transfer future on endpoint e suspended at its await
DropTransfer(u, e) ==
    LET u1 == IF HasGuard(e) THEN cancel_on_drop(u, e) ELSE u
    IN [u1 EXCEPT !.lastdrop = [ep |-> e, owned |-> u1.avail[e]]]

\* The buffer_control writes that give the hardware the buffer
StartTransfer(u, e) == [u EXCEPT !.avail[e] = TRUE]

\* UsbShared::stall_ep0.  On rp the write of the buffer control registers
\* also clears their available bits.
stall_ep0(u) ==
    IF backend = "rp"
    THEN [u EXCEPT !.stall = TRUE, !.avail["ep0in"] = FALSE,
                   !.avail["ep0out"] = FALSE]
    ELSE [u EXCEPT !.stall = TRUE]

\* Usb::poll_event, its writes when it returns the event e
poll_event(u, e) ==
    IF e \in SetupKinds /\ backend = "rp"
    THEN [u EXCEPT !.stall = FALSE, !.avail["ep0in"] = FALSE,
                   !.avail["ep0out"] = FALSE]
    ELSE IF e = "reset" /\ backend = "rp"
    THEN [u EXCEPT !.addr = 0]
    ELSE u

\* The endpoint whose packet transfer the handler future h is suspended on
InFlight(h) ==
    CASE h.pc \in {"respond_data", "accept_status"} -> "ep0in"
      [] h.pc \in {"respond_status", "receive"} -> "ep0out"
      [] OTHER -> "none"

\* this.state.set(None) with a handler future in place: the future, the
\* transfer it is suspended on and the control-data handle it holds are
\* dropped.
DropHandler(h, u) ==
    IF h = NoHandler THEN u
    ELSE LET e == InFlight(h)
             u1 == IF e # "none" THEN DropTransfer(u, e) ELSE u
         IN [u1 EXCEPT !.ended = [how |-> "discarded", calls |-> h.calls,
                                  stalled |-> u1.stall]]

\* Setup::parse followed by handle_control_raw_fut
NewHandler(k) ==
    [req |-> CASE k = "setup_addr" -> "set_address"
               [] k = "setup_config" -> "set_configuration"
               [] k = "setup_iface" -> "set_interface"
               [] OTHER -> "other",
     dir |-> IF k = "setup_in" THEN "in" ELSE "out",
     pc |-> "decide",
     remaining |-> IF k = "setup_out" THEN 1 ELSE 0,
     calls |-> 0]

\* What the handler may do next with the handle it still holds: the match
\* arms of handle_control_raw and the user's handle_control,
\* set_configuration and set_interface ("work" is an await of theirs).
\* The SET_ADDRESS arm calls data.accept() at once.  The SET_CONFIGURATION
\* and SET_INTERFACE arms await the handler's set_configuration /
\* set_interface, which returns Ok ("ok") or Err ("err").
Decisions(h) ==
    IF h.req = "set_address" THEN {"accept"}
    ELSE IF h.req \in {"set_configuration", "set_interface"}
    THEN {"ok", "err", "work"}
    ELSE IF h.dir = "in" THEN {"respond", "reject", "work"}
    ELSE {"reject", "work"}
             \cup (IF h.remaining > 0 THEN {"receive"} ELSE {"accept"})

\* A reject that gives the handle back: the handler decides again.
DecideKeepsHandle(h, u, c) ==
    CASE c = "respond" ->
            [h |-> [h EXCEPT !.calls = @ + 1, !.pc = "respond_data"],
             u |-> StartTransfer(u, "ep0in")]
      [] c = "accept" ->
            [h |-> [h EXCEPT !.calls = @ + 1, !.pc = "accept_status"],
             u |-> StartTransfer(u, "ep0in")]
      [] c = "reject" ->
            [h |-> [h EXCEPT !.calls = @ + 1, !.pc = "decide"], u |-> stall_ep0(u)]
      [] c = "ok" ->
            [h |-> [h EXCEPT !.calls = @ + 1, !.pc = "accept_status"],
             u |-> StartTransfer(u, "ep0in")]
      [] c = "err" ->
            [h |-> [h EXCEPT !.calls = @ + 1, !.pc = "done"], u |-> stall_ep0(u)]
      [] c = "receive" ->
            [h |-> [h EXCEPT !.pc = "receive"], u |-> StartTransfer(u, "ep0out")]
      [] OTHER -> [h |-> [h EXCEPT !.pc = "work"], u |-> u]

\* A dispatcher that acknowledges the request whatever the handler returned
DecideAcceptsErr(h, u, c) ==
    CASE c \in {"respond", "accept", "ok", "err"} ->
            [h |-> [h EXCEPT !.calls = @ + 1,
                             !.pc = IF c = "respond" THEN "respond_data"
                                    ELSE "accept_status"],
             u |-> StartTransfer(u, "ep0in")]
      [] c = "reject" ->
            [h |-> [h EXCEPT !.calls = @ + 1, !.pc = "done"], u |-> stall_ep0(u)]
      [] c = "receive" ->
            [h |-> [h EXCEPT !.pc = "receive"], u |-> StartTransfer(u, "ep0out")]
      [] OTHER -> [h |-> [h EXCEPT !.pc = "work"], u |-> u]

\* ControlIn::respond / reject, ControlOut::receive / accept / reject, up to
\* their first await or their return.  respond, accept and reject take the
\* handle by value.  "ok" and "err" are the arms `Ok(_) => data.accept().await`
\* and `Err(_) => data.reject()` of the match on what set_configuration /
\* set_interface returned.
Decide(h, u, c) ==
    CASE c = "respond" ->
            [h |-> [h EXCEPT !.calls = @ + 1, !.pc = "respond_data"],
             u |-> StartTransfer(u, "ep0in")]
      [] c = "accept" ->
            [h |-> [h EXCEPT !.calls = @ + 1, !.pc = "accept_status"],
             u |-> StartTransfer(u, "ep0in")]
      [] c = "reject" ->
            [h |-> [h EXCEPT !.calls = @ + 1, !.pc = "done"], u |-> stall_ep0(u)]
      [] c = "ok" ->
            [h |-> [h EXCEPT !.calls = @ + 1, !.pc = "accept_status"],
             u |-> StartTransfer(u, "ep0in")]
      [] c = "err" ->
            [h |-> [h EXCEPT !.calls = @ + 1, !.pc = "done"], u |-> stall_ep0(u)]
      [] c = "receive" ->
            [h |-> [h EXCEPT !.pc = "receive"], u |-> StartTransfer(u, "ep0out")]
      [] OTHER -> [h |-> [h EXCEPT !.pc = "work"], u |-> u]

\* The inputs of one poll of the handler future h: "none" where the poll
\* has no choice to make.
Choices(h, u) ==
    CASE h.pc = "decide" -> Decisions(h)
      [] h.pc = "work" -> {"none"} \cup (Decisions(h) \ {"work"})
      [] h.pc = "receive" /\ ~u.avail["ep0out"] ->
            Decisions([h EXCEPT !.remaining = 0])
      [] OTHER -> {"none"}

\* UsbShared::set_address
set_address(u, a) == [u EXCEPT !.addr = a]

\* The address written when accept is called, before its status stage.
ResumeSetsAddressEarly(h, u, c) ==
    CASE h.pc = "decide" ->
            IF h.req = "set_address"
            THEN [h |-> Decide(h, u, c).h, u |-> set_address(Decide(h, u, c).u, NewAddr)]
            ELSE Decide(h, u, c)
      [] h.pc = "work" ->
            IF c = "none" THEN [h |-> h, u |-> u] ELSE Decide(h, u, c)
      [] h.pc = "receive" ->
            IF u.avail["ep0out"] THEN [h |-> h, u |-> u]
            ELSE Decide([h EXCEPT !.remaining = 0], u, c)
      [] h.pc = "respond_data" ->
            IF u.avail["ep0in"] THEN [h |-> h, u |-> u]
            ELSE [h |-> [h EXCEPT !.pc = "respond_status"],
                  u |-> StartTransfer(u, "ep0out")]
      [] h.pc = "respond_status" ->
            IF u.avail["ep0out"] THEN [h |-> h, u |-> u]
            ELSE [h |-> [h EXCEPT !.pc = "done"], u |-> u]
      [] h.pc = "accept_status" ->
            IF u.avail["ep0in"] THEN [h |-> h, u |-> u]
            ELSE [h |-> [h EXCEPT !.pc = "done"], u |-> u]
      [] OTHER -> [h |-> h, u |-> u]

\* One poll of the handler future: from where it is suspended to its next
\* await or its end.  The SET_ADDRESS arm goes on after accept has returned:
\* `let r = data.accept().await; usb.set_address(value as u8); r`
Resume(h, u, c) ==
    CASE h.pc = "decide" -> Decide(h, u, c)
      [] h.pc = "work" ->
            IF c = "none" THEN [h |-> h, u |-> u] ELSE Decide(h, u, c)
      [] h.pc = "receive" ->
            IF u.avail["ep0out"] THEN [h |-> h, u |-> u]
            ELSE Decide([h EXCEPT !.remaining = 0], u, c)
      [] h.pc = "respond_data" ->
            IF u.avail["ep0in"] THEN [h |-> h, u |-> u]
            ELSE [h |-> [h EXCEPT !.pc = "respond_status"],
                  u |-> StartTransfer(u, "ep0out")]
      [] h.pc = "respond_status" ->
            IF u.avail["ep0out"] THEN [h |-> h, u |-> u]
            ELSE [h |-> [h EXCEPT !.pc = "done"], u |-> u]
      [] h.pc = "accept_status" ->
            IF u.avail["ep0in"] THEN [h |-> h, u |-> u]
            ELSE [h |-> [h EXCEPT !.pc = "done"],
                  u |-> IF h.req = "set_address" THEN set_address(u, NewAddr)
                        ELSE u]
      [] OTHER -> [h |-> h, u |-> u]

\* The host resets the bus.
HostReset ==
    /\ ev = "none"
    /\ ev' = "reset"
    /\ UNCHANGED <<backend, stall, avail, hs, xfer, ended, lastdrop, usbMore, packet, irq, res>>
    /\ UNCHANGED <<execVars, timeVars>>

\* The host sends a setup packet.
HostSetup(k) ==
    /\ ev = "none"
    /\ ev' = k
    /\ packet' = bmRequestType[k]
    /\ UNCHANGED <<irq, res>>
    /\ UNCHANGED <<backend, stall, avail, hs, xfer, ended, lastdrop, usbMore>>
    /\ UNCHANGED <<execVars, timeVars>>

\* The hardware completes the packet transfer armed on endpoint e.
HostPacket(e) ==
    /\ avail[e]
    /\ avail' = [avail EXCEPT ![e] = FALSE]
    /\ UNCHANGED <<backend, ev, stall, hs, xfer, ended, lastdrop, usbMore, packet, irq, res>>
    /\ UNCHANGED <<execVars, timeVars>>

\* A run_device that keeps the handler future over a Reset event
FutPollKeepsOld(c) ==
    LET u0 == poll_event(Hw, ev)
        u1 == IF ev \in {"none", "reset"} THEN u0 ELSE DropHandler(hs, u0)
        bad == ev \in SetupKinds /\ ~parse(packet).ok
        u2 == IF bad THEN stall_ep0(u1) ELSE u1
        h1 == IF ev \in {"none", "reset"} THEN hs
              ELSE IF ev \in SetupKinds /\ ~bad THEN NewHandler(ev)
              ELSE NoHandler
        ops == (IF ev \notin {"none", "reset"} /\ hs # NoHandler
                THEN <<"drop">> ELSE <<>>)
               \o (CASE ev = "reset" -> <<"configure_ep0", "handle_reset">>
                      [] bad -> <<"stall_ep0">>
                      [] ev = "none" -> <<>>
                      [] OTHER -> <<"install">>)
               \o (IF h1 # NoHandler THEN <<"poll">> ELSE <<>>)
    IN /\ usb_panic = "none"
       /\ \E h2 \in {h1}, u \in {u2} :
            /\ c \in (IF h2 = NoHandler THEN {"none"} ELSE Choices(h2, u))
            /\ \E r \in {IF h2 = NoHandler THEN [h |-> h2, u |-> u]
                          ELSE Resume(h2, u, c)} :
                 LET done == r.h.pc = "done"
                     u3 == IF done
                           THEN [r.u EXCEPT !.ended = [how |-> "completed",
                                                       calls |-> r.h.calls,
                                                       stalled |-> r.u.stall]]
                           ELSE r.u
                 IN /\ addr' = u3.addr
                    /\ hs' = IF done THEN NoHandler ELSE r.h
                    /\ stall' = u3.stall
                    /\ avail' = u3.avail
                    /\ ended' = u3.ended
                    /\ lastdrop' = u3.lastdrop
       /\ lastpoll' = IF ev = "none" THEN NoPoll
                      ELSE [event |-> ev, b0 |-> packet, had |-> hs # NoHandler,
                            ops |-> ops]
       /\ UNCHANGED <<epVars, dataVars>>
       /\ ev' = "none"
       /\ packet' = 0
       /\ UNCHANGED <<irq, res>>
       /\ UNCHANGED <<backend, xfer>>
       /\ UNCHANGED <<execVars, timeVars>>

\* run_device: Fut::poll.  ops lists, in the order of the statements, what
\* the poll does after poll_event: "drop" is the this.state.set(None) that
\* drops a handler future, "install" the this.state.set(Some(..)), "poll" the
\* fut.poll(cx) of the handler future then in place.
FutPoll(c) ==
    LET u0 == poll_event(Hw, ev)
        u1 == IF ev = "none" THEN u0 ELSE DropHandler(hs, u0)
        bad == ev \in SetupKinds /\ ~parse(packet).ok
        u2 == IF bad THEN stall_ep0(u1) ELSE u1
        h1 == IF ev = "none" THEN hs
              ELSE IF ev \in SetupKinds /\ ~bad THEN NewHandler(ev)
              ELSE NoHandler
        ops == (IF ev # "none" /\ hs # NoHandler THEN <<"drop">> ELSE <<>>)
               \o (CASE ev = "reset" -> <<"configure_ep0", "handle_reset">>
                      [] bad -> <<"stall_ep0">>
                      [] ev = "none" -> <<>>
                      [] OTHER -> <<"install">>)
               \o (IF h1 # NoHandler THEN <<"poll">> ELSE <<>>)
    IN /\ usb_panic = "none"
       /\ \E h2 \in {h1}, u \in {u2} :
            /\ c \in (IF h2 = NoHandler THEN {"none"} ELSE Choices(h2, u))
            /\ \E r \in {IF h2 = NoHandler THEN [h |-> h2, u |-> u]
                          ELSE Resume(h2, u, c)} :
                 LET done == r.h.pc = "done"
                     u3 == IF done
                           THEN [r.u EXCEPT !.ended = [how |-> "completed",
                                                       calls |-> r.h.calls,
                                                       stalled |-> r.u.stall]]
                           ELSE r.u
                 IN /\ addr' = u3.addr
                    /\ hs' = IF done THEN NoHandler ELSE r.h
                    /\ stall' = u3.stall
                    /\ avail' = u3.avail
                    /\ ended' = u3.ended
                    /\ lastdrop' = u3.lastdrop
       /\ lastpoll' = IF ev = "none" THEN NoPoll
                      ELSE [event |-> ev, b0 |-> packet, had |-> hs # NoHandler,
                            ops |-> ops]
       /\ UNCHANGED <<epVars, dataVars>>
       /\ ev' = "none"
       /\ packet' = 0
       /\ UNCHANGED <<irq, res>>
       /\ UNCHANGED <<backend, xfer>>
       /\ UNCHANGED <<execVars, timeVars>>

\* Endpoint::send / Endpoint::receive polled for the first time:
\* transfer_in / transfer_out arm the packet and suspend.
TransferStart(e) ==
    /\ usb_panic = "none"
    /\ e \in endpoint
    /\ xfer[e] = "idle"
    /\ ~avail[e]
    /\ xfer' = [xfer EXCEPT ![e] = "inflight"]
    /\ avail' = StartTransfer(Hw, e).avail
    /\ UNCHANGED <<backend, ev, stall, hs, ended, lastdrop, usbMore, packet, irq, res>>
    /\ UNCHANGED <<execVars, timeVars>>

\* The transfer future polled after the hardware has given the buffer back
TransferPoll(e) ==
    /\ usb_panic = "none"
    /\ xfer[e] = "inflight"
    /\ ~avail[e]
    /\ xfer' = [xfer EXCEPT ![e] = "idle"]
    /\ UNCHANGED <<backend, ev, stall, avail, hs, ended, lastdrop, usbMore, packet, irq, res>>
    /\ UNCHANGED <<execVars, timeVars>>

\* The transfer future dropped while suspended (the losing branch of a
\* select, a cancelled task)
TransferDrop(e) ==
    /\ usb_panic = "none"
    /\ xfer[e] = "inflight"
    /\ xfer' = [xfer EXCEPT ![e] = "idle"]
    /\ avail' = DropTransfer(Hw, e).avail
    /\ lastdrop' = DropTransfer(Hw, e).lastdrop
    /\ UNCHANGED <<backend, ev, stall, hs, ended, usbMore, packet, irq, res>>
    /\ UNCHANGED <<execVars, timeVars>>

\* A mark_enabled without the check of the ownership bitmap
mark_enabled_unchecked(bits, ep) ==
    [bits |-> bits \cup {ep_enabled_bit(ep)}, panic |-> "none"]

\* Endpoints::mark_enabled on the ownership bitmap `bits`: the panic comes
\* before the write.
mark_enabled(bits, ep) ==
    IF ep_enabled_bit(ep) \in bits
    THEN [bits |-> bits, panic |-> "already in use"]
    ELSE [bits |-> bits \cup {ep_enabled_bit(ep)}, panic |-> "none"]

\* UsbShared::enable_ep: the rp back-end rewrites the buffer control
\* register of the endpoint, the samd back-end sets the endpoint type only.
enable_ep(u, e) ==
    IF backend = "rp" THEN [u EXCEPT !.avail[e] = FALSE] ELSE u

\* Endpoints::bulk_in / bulk_out / interrupt_in / interrupt_out, called by
\* set_configuration or set_interface in a poll of the handler future (the
\* handler is the only holder of an Endpoints).
RequestEndpoint(e) ==
    LET m == mark_enabled(EP_ENABLED, EpAddr[e])
    IN /\ usb_panic = "none"
       /\ ev = "none"
       /\ hs.pc = "work" /\ hs.dir = "out" /\ hs.req = "other"
       /\ usb_panic' = m.panic
       /\ EP_ENABLED' = m.bits
       /\ endpoint' = IF m.panic = "none" THEN endpoint \cup {e} ELSE endpoint
       /\ avail' = IF m.panic = "none" THEN enable_ep(Hw, e).avail ELSE avail
       /\ lastpoll' = NoPoll
       /\ UNCHANGED <<backend, ev, stall, hs, xfer, ended, lastdrop, addr, dataVars, packet, irq, res>>
       /\ UNCHANGED <<execVars, timeVars>>

\* A drop that writes the bitmap back as it was at start-up
EndpointDropClearsAll(e) ==
    /\ usb_panic = "none"
    /\ e \in endpoint
    /\ xfer[e] = "idle"
    /\ endpoint' = endpoint \ {e}
    /\ EP_ENABLED' = {ep_enabled_bit(EpAddr["ep0out"]), ep_enabled_bit(EpAddr["ep0in"])}
    /\ UNCHANGED usb_panic
    /\ UNCHANGED <<backend, ev, stall, avail, hs, xfer, ended, lastdrop, addr,
                   lastpoll, dataVars, packet, irq, res>>
    /\ UNCHANGED <<execVars, timeVars>>

\* Drop for Endpoint: no transfer borrows the object
EndpointDrop(e) ==
    /\ usb_panic = "none"
    /\ e \in endpoint
    /\ xfer[e] = "idle"
    /\ endpoint' = endpoint \ {e}
    /\ EP_ENABLED' = EP_ENABLED \ {ep_enabled_bit(EpAddr[e])}
    /\ UNCHANGED usb_panic
    /\ UNCHANGED <<backend, ev, stall, avail, hs, xfer, ended, lastdrop, addr,
                   lastpoll, dataVars, packet, irq, res>>
    /\ UNCHANGED <<execVars, timeVars>>

UsbInit == Boot /\ cmp = <<>> /\ backend \in Backends

\* The device engine with its bulk endpoints; the host sends the requests
\* that go to handle_control.
UsbNext ==
    \/ HostReset
    \/ \E k \in SetupKinds \ ({"setup_addr"} \cup ResultKinds) : HostSetup(k)
    \/ \E e \in Eps : HostPacket(e)
    \/ \E c \in {"none", "respond", "accept", "reject", "receive", "work"} : FutPoll(c)
    \/ \E e \in BulkEps : TransferStart(e)
    \/ \E e \in BulkEps : TransferPoll(e)
    \/ \E e \in BulkEps : TransferDrop(e)
    \/ \E e \in BulkEps : RequestEndpoint(e)
    \/ \E e \in BulkEps : EndpointDrop(e)

UsbSpec == UsbInit /\ [][UsbNext]_vars

\* Byte 0 of the setup packets the host sends: both directions, the four
\* values of the type field, and the recipients 0, 3 (the last one defined),
\* 4 and 31 (the first and the last reserved one)
SetupBytes ==
    {(d * 128) + (t * 32) + r : d \in 0..1, t \in 0..3, r \in {0, 3, 4, 31}}

\* The host sends a setup packet with any byte 0: an IN request when its
\* direction bit is set, an OUT request with or without a data stage when
\* it is not.
HostSetupPacket(b0, k) ==
    /\ ev = "none"
    /\ k \in (IF And(b0, DIRECTION_MASK) = 0 THEN {"setup_out", "setup_out0"}
              ELSE {"setup_in"})
    /\ ev' = k
    /\ packet' = b0
    /\ UNCHANGED <<irq, res>>
    /\ UNCHANGED <<backend, stall, avail, hs, xfer, ended, lastdrop, usbMore>>
    /\ UNCHANGED <<execVars, timeVars>>

\* The control endpoint under setup packets of every bmRequestType
SetupNext ==
    \/ \E b0 \in SetupBytes, k \in SetupKinds : HostSetupPacket(b0, k)
    \/ \E e \in {"ep0in", "ep0out"} : HostPacket(e)
    \/ \E c \in {"none", "respond", "accept", "reject", "receive", "work"} : FutPoll(c)

SetupSpec == UsbInit /\ [][SetupNext]_vars

\* What the handler can be seen to do in one poll
PollInputs == {"none", "respond", "accept", "reject", "receive", "work", "ok", "err"}

\* ------------------------------------------- bus events and the task
\* The signal NOTIFY_BUS_EVENT
BusSignal == 1

\* USBCTRL_IRQ / USB, taken while a bus event is flagged (the handler does
\* not clear bus_reset, setup_rec, eorst or rxstp: poll_event does), on top
\* of whatever is running: `if flags.bus_reset() || flags.setup_req()
\* { NOTIFY_BUS_EVENT.notify() }`
BusIsr ==
    /\ panicked = "none"
    /\ irqEnabled
    /\ IsrDepth < MaxIsrNest
    /\ ev # "none"
    /\ IF poll_fn[BusSignal] = None
         THEN UNCHANGED <<poll_fn, stack>>
         ELSE /\ poll_fn' = [poll_fn EXCEPT ![BusSignal] = None]
              /\ stack' = Append(stack,
                    [Frame("poll", "p1", poll_fn[BusSignal], "notify")
                        EXCEPT !.isr = TRUE, !.x = BusSignal])
    /\ UNCHANGED <<state, slot, next, head, pendsv, irqEnabled, panicked, hist>>
    /\ UNCHANGED notExec

\* Usb::poll_event, its first statement:
\* `NOTIFY_BUS_EVENT.get(self.rt).subscribe(cx.waker())`
PollEventSubscribe ==
    /\ Running("poll", "p3")
    /\ poll_fn' = Subscribe(BusSignal, Top.t)
    /\ Goto("e2")
    /\ UNCHANGED <<state, slot, next, head, pendsv, irqEnabled, panicked, hist>>
    /\ UNCHANGED notExec

\* Usb::poll_event, the rest: the flags are read; a flagged event is
\* cleared and returned to Fut::poll as Poll::Ready(event), else Pending.
\* lastpoll keeps the event returned.
PollEventRead ==
    /\ Running("poll", "e2")
    /\ Goto("e3")
    /\ ev' = "none"
    /\ packet' = 0
    /\ stall' = poll_event(Hw, ev).stall
    /\ avail' = poll_event(Hw, ev).avail
    /\ addr' = poll_event(Hw, ev).addr
    /\ lastpoll' = IF ev = "none" THEN NoPoll
                   ELSE [event |-> ev, b0 |-> packet, had |-> FALSE, ops |-> <<>>]
    /\ UNCHANGED <<backend, hs, xfer, ended, lastdrop, epVars, dataVars, irq, res>>
    /\ UNCHANGED <<core, hist>>
    /\ UNCHANGED timeVars

\* Fut::poll of run_device ends with Poll::Pending; TaskStorage::poll:
\* `Poll::Pending => self.state.set(TaskState::Running)`
EventPending ==
    /\ Running("poll", "e3")
    /\ state' = [state EXCEPT ![Top.t] = "Running"]
    /\ Return
    /\ sw' = [sw EXCEPT ![Top.t] =
                IF Top.w = 1 THEN (IF InDrain THEN "cur" ELSE "next") ELSE @]
    /\ UNCHANGED <<slot, next, head, poll_fn, pendsv, irqEnabled, panicked,
                   owed, missed, ran>>
    /\ UNCHANGED notExec

\* One task that awaits run_device and may wake itself, the host and the
\* interrupt handler of the USB peripheral
EventNext ==
    \/ MainSpawn
    \/ PostInit
    \/ EnqueueCheck
    \/ EnqueueLoadHead
    \/ EnqueueStoreNext
    \/ EnqueueStoreHead
    \/ RunAllLoadHead
    \/ RunAllClearHead
    \/ RunAllLoadNext
    \/ RunAllCallStub
    \/ PendSV
    \/ WakerWakePend
    \/ Cancel
    \/ SpawnSetRunning
    \/ SpawnWritePoll
    \/ PollCheck
    \/ PollSetPolling
    \/ BodyWake
    \/ PollEventSubscribe
    \/ PollEventRead
    \/ EventPending
    \/ HostReset
    \/ \E k \in {"setup_in", "setup_out", "setup_bad"} : HostSetup(k)
    \/ BusIsr

EventSpec == UsbInit /\ [][EventNext]_vars

\* The control endpoint alone, with every request
ControlNext ==
    \/ HostReset
    \/ \E k \in SetupKinds : HostSetup(k)
    \/ \E e \in {"ep0in", "ep0out"} : HostPacket(e)
    \/ \E c \in PollInputs : FutPoll(c)

ControlSpec == UsbInit /\ [][ControlNext]_vars

C19_DroppedHandleStalls ==
    (ended.how # "none" /\ ended.calls = 0) => ended.stalled

\* C20: when a transfer future is dropped in flight, on a bulk endpoint or
\* on either direction of the control endpoint, the hardware no longer owns
\* the endpoint's buffer when the drop returns.
C20_DropLeavesEndpointIdle == lastdrop.ep # "none" => ~lastdrop.owned

\* C21: a request of an endpoint whose Endpoint object is still alive panics
\* and leaves the ownership bitmap as it found it.
C21_RequestOfLiveEndpointPanics ==
    [][\A e \in BulkEps :
          (RequestEndpoint(e) /\ e \in endpoint)
              => (usb_panic' # "none" /\ EP_ENABLED' = EP_ENABLED)]_vars

\* A second request of out1 or in1 while its Endpoint object is alive has
\* panicked.
C21_Witness ==
    /\ usb_panic = "already in use"
    /\ endpoint # {}
    /\ \A e \in BulkEps : e \in endpoint <=> ep_enabled_bit(EpAddr[e]) \in EP_ENABLED

\* C24: the device address changes to the value of a SET_ADDRESS request only
\* in a poll of that request's handler made after the hardware has completed
\* the zero-length IN packet of the status phase, with no Reset or Setup event
\* discarding the handler in that poll; the only other change of the address
\* is the bus reset.  A handler discarded earlier leaves the address alone.
C24_AddressSetAfterStatusPhase ==
    [][(addr' # addr) =>
          \/ ev = "reset" /\ addr' = 0
          \/ /\ ev = "none"
             /\ hs.req = "set_address"
             /\ hs.pc = "accept_status"
             /\ ~avail["ep0in"]
             /\ hs' = NoHandler
             /\ addr' = NewAddr]_vars

\* A SET_ADDRESS handler has run to its end and the address is the new one.
C24_Witness ==
    /\ addr = NewAddr
    /\ hs = NoHandler
    /\ ended.how = "completed"
    /\ ended.calls = 1
    /\ lastpoll = NoPoll

\* The positions of operation o in the sequence ops
Positions(ops, o) == {i \in 1..Len(ops) : ops[i] = o}

\* C30: run_device has one slot for the inner computation.  In a poll that
\* reads a Reset or Setup event while a handler is in place, dropping that
\* handler is the first thing done, before handle_reset or the installation
\* of the new handler; the only handler polled in that poll or later is one
\* installed for the event, so after a Reset or a refused setup packet no
\* handler is left, and after a Setup the handler is the one of that packet.
C30_OldHandlerDroppedFirst ==
    lastpoll.event # "none" =>
        /\ lastpoll.had => (lastpoll.ops # <<>> /\ lastpoll.ops[1] = "drop")
        /\ \A i \in Positions(lastpoll.ops, "poll") :
              \E j \in Positions(lastpoll.ops, "install") : j < i
        /\ Positions(lastpoll.ops, "drop") \subseteq {1}
        /\ lastpoll.event \in {"reset", "setup_bad"} => hs = NoHandler
        /\ hs # NoHandler =>
              /\ hs.req = NewHandler(lastpoll.event).req
              /\ hs.dir = NewHandler(lastpoll.event).dir
              /\ hs.calls <= 1

\* A Reset has found a suspended handler and a Setup has found one, and
\* after the Setup the new handler has been polled.
C30_Witness ==
    /\ lastpoll.event = "setup_in"
    /\ lastpoll.had
    /\ lastpoll.ops = <<"drop", "install", "poll">>
    /\ hs.dir = "in"
    /\ ended.how = "discarded"

\* ------------------------------------------------------- bulk transfers
\* The packet size of the bulk endpoints (PacketSize::Size64, set_length(0, 64))
PacketSize == 64

\* The SIZE of the UsbBuffer given to receive: `assert!(SIZE >= 64)`, and a
\* multiple of the packet size (prepare_out)
RecvSizes == {PacketSize, 2 * PacketSize}

\* slice.chunks(64): the lengths of the chunks of n bytes
RECURSIVE chunks(_)
chunks(n) ==
    IF n = 0 THEN <<>>
    ELSE IF n <= PacketSize THEN <<n>>
    ELSE <<PacketSize>> \o chunks(n - PacketSize)

\* The packets the hardware sends for a bank armed with n bytes: the samd
\* multi-packet transfer cuts BYTE_COUNT into packets of SIZE, a bank
\* armed with no bytes sends one zero-length packet.
HwPackets(n) == IF n = 0 THEN <<0>> ELSE chunks(n)

\* A transfer_in that sends a zero-length packet after every whole number
\* of full packets, asked for or not
ArmingsAutoZlp(len, zlp) ==
    IF backend = "rp"
    THEN chunks(len) \o (IF len % PacketSize = 0 THEN <<0>> ELSE <<>>)
    ELSE <<len>> \o (IF len > 0 /\ len % PacketSize = 0 THEN <<0>> ELSE <<>>)

\* transfer_in: the byte counts the bank is armed with, one after the other.
\* rp: `slice.chunks(64).chain((len == 0 || (zlp && len % 64 == 0))
\* .then_some(&[]))`; samd: the loop over prepare_in(len), run again with
\* len = 0 `if zlp && len > 0 && len % 64 == 0`.
Armings(len, zlp) ==
    IF backend = "rp"
    THEN chunks(len) \o (IF len = 0 \/ (zlp /\ len % PacketSize = 0)
                         THEN <<0>> ELSE <<>>)
    ELSE <<len>> \o (IF zlp /\ len > 0 /\ len % PacketSize = 0
                     THEN <<0>> ELSE <<>>)

\* set_configuration takes the bulk endpoints (examples/rp2040/usb
\* main.rs: endpoints.bulk_out::<EP_ECHO_OUT>(), endpoints.bulk_in::<EP_ECHO_IN>())
Configure ==
    LET m1 == mark_enabled(EP_ENABLED, EpAddr["out1"])
        m2 == mark_enabled(m1.bits, EpAddr["in1"])
    IN /\ usb_panic = "none"
       /\ endpoint = {}
       /\ m1.panic = "none" /\ m2.panic = "none"
       /\ EP_ENABLED' = m2.bits
       /\ endpoint' = BulkEps
       /\ UNCHANGED <<usb_panic, backend, ev, stall, avail, hs, xfer, ended,
                      lastdrop, addr, lastpoll, dataVars, packet, irq, res>>
       /\ UNCHANGED <<execVars, timeVars>>

\* Endpoint<In>::send(buf, len, zlp) polled for the first time: transfer_in
\* arms the bank with the first byte count and suspends.
SendStart(len, zlp) ==
    /\ usb_panic = "none"
    /\ "in1" \in endpoint
    /\ tx.pc \in {"none", "done"}
    /\ tx' = [pc |-> "armed", len |-> len, zlp |-> zlp,
              arms |-> Tail(Armings(len, zlp)),
              hw |-> HwPackets(Head(Armings(len, zlp))),
              sent |-> <<>>, length |-> 0]
    /\ UNCHANGED <<rx, epVars, backend, ev, stall, avail, hs, xfer, ended,
                   lastdrop, addr, lastpoll, packet, irq, res>>
    /\ UNCHANGED <<execVars, timeVars>>

\* The host takes the next IN packet of the armed bank; after the last one
\* the hardware gives the bank back (available cleared / TRCPT1 set).
HostIn ==
    /\ tx.pc = "armed"
    /\ tx' = [tx EXCEPT !.sent = Append(@, Head(tx.hw)),
                        !.hw = Tail(@),
                        !.pc = IF Tail(tx.hw) = <<>> THEN "given_back" ELSE @]
    /\ UNCHANGED <<rx, epVars, backend, ev, stall, avail, hs, xfer, ended,
                   lastdrop, addr, lastpoll, packet, irq, res>>
    /\ UNCHANGED <<execVars, timeVars>>

\* transfer_in polled after the bank was given back: the next turn of its
\* loop, or its end.
SendPoll ==
    /\ usb_panic = "none"
    /\ tx.pc = "given_back"
    /\ tx' = IF tx.arms = <<>> THEN [tx EXCEPT !.pc = "done"]
             ELSE [tx EXCEPT !.pc = "armed", !.hw = HwPackets(Head(tx.arms)),
                             !.arms = Tail(@)]
    /\ UNCHANGED <<rx, epVars, backend, ev, stall, avail, hs, xfer, ended,
                   lastdrop, addr, lastpoll, packet, irq, res>>
    /\ UNCHANGED <<execVars, timeVars>>

DataInit == Boot /\ cmp = <<>> /\ backend \in Backends

SendNext ==
    \/ Configure
    \/ \E len \in 0..MaxLen, zlp \in BOOLEAN : SendStart(len, zlp)
    \/ HostIn
    \/ SendPoll

SendSpec == DataInit /\ [][SendNext]_vars

\* ---------------------------------------------- control data stage, IN
\* The wLength of the IN requests the host sends
ReqLengths == {0, 1, 64, 65, 128, 200}

\* The size of CONTROL_BUF (samd: UsbBuffer<64>)
ControlBufLen == 64

Min(a, b) == IF a < b THEN a ELSE b

\* samd ep0_transfer_in with the loop left when no data remains, whatever
\* is_full says
ep0_transfer_in_no_zlp(n, is_full) ==
    IF backend = "rp" THEN Armings(n, ~is_full)
    ELSE HwPackets(n)

\* Endpoint0::ep0_transfer_in(data, is_full), n = data.len(): the byte
\* counts the bank of endpoint 0 IN is armed with.  rp: transfer_in(0x80,
\* data, len, !is_full).  samd: the loop that copies
\* min(data.len(), buf.len()) bytes to CONTROL_BUF, awaits
\* transfer_in(0x80, buf, pkt.len(), false), and ends
\* `if pkt.len() < 64 || (remaining.len() == 0 && is_full)`.
RECURSIVE ep0_transfer_in(_, _)
ep0_transfer_in(n, is_full) ==
    IF backend = "rp" THEN Armings(n, ~is_full)
    ELSE LET pkt == Min(n, ControlBufLen)
             remaining == n - pkt
         IN Armings(pkt, FALSE)
            \o (IF pkt < 64 \/ (remaining = 0 /\ is_full) THEN <<>>
                ELSE ep0_transfer_in(remaining, is_full))

\* ControlIn::respond(data) polled for the first time, len = data.len()
\* and length the wLength of the request: is_full, the truncation
\* `&data[..data.len().min(self.length)]`, and ep0_transfer_in up to its
\* first await.
RespondStart(len, length) ==
    LET is_full == len >= length
        n == Min(len, length)
        a == ep0_transfer_in(n, is_full)
    IN /\ usb_panic = "none"
       /\ tx.pc \in {"none", "done"}
       /\ ~avail["ep0out"]
       /\ tx' = [pc |-> "armed", len |-> len, zlp |-> ~is_full,
                 arms |-> Tail(a), hw |-> HwPackets(Head(a)),
                 sent |-> <<>>, length |-> length]
       /\ UNCHANGED <<rx, epVars, backend, ev, stall, avail, hs, xfer, ended,
                      lastdrop, addr, lastpoll, packet, irq, res>>
       /\ UNCHANGED <<execVars, timeVars>>

\* respond polled after the bank was given back: the next arming of
\* ep0_transfer_in, or after its last one `self.usb.ep0_transfer_out().await`
\* which arms endpoint 0 OUT for the status stage; then, polled after the
\* status packet, its end.
RespondPoll ==
    /\ usb_panic = "none"
    /\ \/ /\ tx.pc = "given_back"
          /\ tx.arms # <<>>
          /\ tx' = [tx EXCEPT !.pc = "armed", !.hw = HwPackets(Head(tx.arms)),
                              !.arms = Tail(@)]
          /\ UNCHANGED avail
       \/ /\ tx.pc = "given_back"
          /\ tx.arms = <<>>
          /\ tx' = [tx EXCEPT !.pc = "status"]
          /\ avail' = StartTransfer(Hw, "ep0out").avail
       \/ /\ tx.pc = "status"
          /\ ~avail["ep0out"]
          /\ tx' = [tx EXCEPT !.pc = "done"]
          /\ UNCHANGED avail
    /\ UNCHANGED <<rx, epVars, backend, ev, stall, hs, xfer, ended,
                   lastdrop, addr, lastpoll, packet, irq, res>>
    /\ UNCHANGED <<execVars, timeVars>>

\* One control IN request after the other, answered with respond
RespondNext ==
    \/ \E len \in 0..MaxLen, length \in ReqLengths : RespondStart(len, length)
    \/ HostIn
    \/ HostPacket("ep0out")
    \/ RespondPoll

RespondSpec == DataInit /\ [][RespondNext]_vars

\* Endpoint<Out>::receive(buf) polled for the first time: transfer_out arms
\* the bank and suspends.  left is slice.len() (rp) or what is left of
\* MULTI_PACKET_SIZE (samd), total is total_len (rp) or BYTE_COUNT (samd).
RecvStart(size) ==
    /\ usb_panic = "none"
    /\ "out1" \in endpoint
    /\ rx.pc \in {"none", "done"}
    /\ rx' = [pc |-> "armed", size |-> size, left |-> size, total |-> 0,
              len |-> 0, got |-> <<>>, ret |-> 0]
    /\ UNCHANGED <<tx, epVars, backend, ev, stall, avail, hs, xfer, ended,
                   lastdrop, addr, lastpoll, packet, irq, res>>
    /\ UNCHANGED <<execVars, timeVars>>

\* The host sends an OUT packet of L bytes to the armed bank.  rp: the
\* hardware writes the length and gives the buffer back.  samd: the
\* hardware adds L to BYTE_COUNT and sets TRCPT0 after a short packet or
\* when BYTE_COUNT has reached MULTI_PACKET_SIZE.
HostOut(L) ==
    /\ rx.pc = "armed"
    /\ rx' = IF backend = "rp"
             THEN [rx EXCEPT !.pc = "given_back", !.len = L,
                             !.got = Append(@, L)]
             ELSE [rx EXCEPT !.pc = IF L < PacketSize \/ rx.left - L = 0
                                    THEN "given_back" ELSE "armed",
                             !.len = L, !.total = @ + L, !.left = @ - L,
                             !.got = Append(@, L)]
    /\ UNCHANGED <<tx, epVars, backend, ev, stall, avail, hs, xfer, ended,
                   lastdrop, addr, lastpoll, packet, irq, res>>
    /\ UNCHANGED <<execVars, timeVars>>

\* transfer_out polled after the bank was given back.  rp: the body of the
\* loop after the await, `assert!(pkt_len <= slice.len())` and
\* `if pkt_len < 64 { break }`, else the next turn arms the bank again.
\* samd: returns out_len().
RecvPoll ==
    /\ usb_panic = "none"
    /\ rx.pc = "given_back"
    /\ IF backend = "rp"
       THEN IF rx.len > rx.left
            THEN /\ usb_panic' = "pkt_len <= slice.len()"
                 /\ UNCHANGED rx
            ELSE /\ rx' = [rx EXCEPT !.total = @ + rx.len, !.left = @ - rx.len,
                                     !.pc = IF rx.len < PacketSize THEN "done"
                                            ELSE "armed",
                                     !.ret = IF rx.len < PacketSize
                                             THEN rx.total + rx.len ELSE @]
                 /\ UNCHANGED usb_panic
       ELSE /\ rx' = [rx EXCEPT !.pc = "done", !.ret = rx.total]
            /\ UNCHANGED usb_panic
    /\ UNCHANGED <<tx, EP_ENABLED, endpoint, backend, ev, stall, avail, hs,
                   xfer, ended, lastdrop, addr, lastpoll, packet, irq, res>>
    /\ UNCHANGED <<execVars, timeVars>>

RecvNext ==
    \/ Configure
    \/ \E size \in RecvSizes : RecvStart(size)
    \/ \E L \in 0..PacketSize : HostOut(L)
    \/ RecvPoll

RecvSpec == DataInit /\ [][RecvNext]_vars

\* --------------------------------------------- control data stage, OUT
\* The wLength of the OUT requests the host sends
OutLengths == {0, 1, 8, 64, 65, 128}

\* u16::saturating_sub
saturating_sub(a, b) == IF a > b THEN a - b ELSE 0

\* Setup::parse of an OUT request of wLength length, given to a handler
\* that is about to call receive: ControlOut { length, remaining: length }
ControlOutSetup(length) ==
    /\ usb_panic = "none"
    /\ hs.pc \in {"none", "work"}
    /\ hs' = [NewHandler("setup_out") EXCEPT !.remaining = length,
                                             !.pc = "work"]
    /\ rx' = NoRx
    /\ UNCHANGED <<tx, epVars, backend, ev, stall, avail, xfer, ended,
                   lastdrop, addr, lastpoll, packet, irq, res>>
    /\ UNCHANGED <<execVars, timeVars>>

\* ControlOut::receive polled for the first time: `if self.remaining > 0`
\* ep0_transfer_out arms endpoint 0 OUT for one packet of 64 bytes and
\* suspends (rp: out_packet(0), set_length(0, 64); samd: transfer_out(0,
\* buf, 64)); else it returns `&[]`.
ReceiveStart ==
    /\ usb_panic = "none"
    /\ hs.pc = "work"
    /\ hs.dir = "out"
    /\ IF hs.remaining > 0
       THEN /\ hs' = [hs EXCEPT !.pc = "receive"]
            /\ rx' = [pc |-> "armed", size |-> PacketSize, left |-> PacketSize,
                      total |-> 0, len |-> 0, got |-> <<>>, ret |-> 0]
       ELSE /\ rx' = [NoRx EXCEPT !.pc = "done"]
            /\ UNCHANGED hs
    /\ UNCHANGED <<tx, epVars, backend, ev, stall, avail, xfer, ended,
                   lastdrop, addr, lastpoll, packet, irq, res>>
    /\ UNCHANGED <<execVars, timeVars>>

\* The length of the slice ep0_transfer_out returns.  rp:
\* `slice::from_raw_parts(buf, len)` with the len of out_packet, the length
\* the hardware wrote to buffer control.  samd: the value of transfer_out
\* is dropped and `&**buf` is all of CONTROL_BUF.
ep0_transfer_out(r) == IF backend = "rp" THEN r.len ELSE ControlBufLen

\* receive polled after the packet has arrived: the slice returned and
\* `self.remaining = self.remaining.saturating_sub(data.len() as u16)`
ReceivePoll ==
    /\ usb_panic = "none"
    /\ hs.pc = "receive"
    /\ rx.pc = "given_back"
    /\ hs' = [hs EXCEPT !.pc = "work",
                        !.remaining = saturating_sub(@, ep0_transfer_out(rx))]
    /\ rx' = [rx EXCEPT !.pc = "done", !.ret = ep0_transfer_out(rx)]
    /\ UNCHANGED <<tx, epVars, backend, ev, stall, avail, xfer, ended,
                   lastdrop, addr, lastpoll, packet, irq, res>>
    /\ UNCHANGED <<execVars, timeVars>>

\* One control OUT request after the other, read with receive
ReceiveNext ==
    \/ \E length \in OutLengths : ControlOutSetup(length)
    \/ ReceiveStart
    \/ \E L \in 0..PacketSize : HostOut(L)
    \/ ReceivePoll

ReceiveSpec == DataInit /\ [][ReceiveNext]_vars

\* C33: a receive that starts with remaining > 0 returns a slice as long as
\* the OUT packet received (at most 64 bytes) and takes that number from
\* remaining, stopping at 0; a receive with remaining = 0 returns an empty
\* slice and arms no transfer.
C33_ReceiveReturnsPacket ==
    [][/\ ReceivePoll =>
            /\ rx.len <= 64
            /\ rx'.ret = rx.len
            /\ hs'.remaining = saturating_sub(hs.remaining, rx.len)
       /\ (ReceiveStart /\ hs.remaining = 0) =>
            /\ rx'.pc = "done"
            /\ rx'.ret = 0
            /\ rx'.got = <<>>
            /\ hs' = hs]_vars

\* C22: receive completes as soon as one packet has been received, and
\* returns the length of that packet: once a packet has arrived and the
\* future has been polled, the transfer is not armed for a further packet,
\* and a completed receive has taken one packet and returned its length.
C22_ReceiveCompletesAfterOnePacket ==
    /\ rx.pc = "armed" => rx.got = <<>>
    /\ rx.pc = "done" => (Len(rx.got) = 1 /\ rx.ret = rx.got[1])

\* The sum of the first n elements of the sequence q
RECURSIVE SumTo(_, _)
SumTo(q, n) == IF n = 0 THEN 0 ELSE q[n] + SumTo(q, n - 1)

\* C23: a completed send(buf, len, zlp) has transmitted the len bytes as
\* ceil(len/64) packets of at most 64 bytes (one zero-length packet when
\* len = 0), followed by one more zero-length packet exactly when zlp is
\* true and len is a positive multiple of 64, on both back-ends.
C23_SendPackets ==
    tx.pc = "done" =>
        LET data == IF tx.len = 0 THEN 1
                    ELSE (tx.len + PacketSize - 1) \div PacketSize
            extra == tx.zlp /\ tx.len > 0 /\ tx.len % PacketSize = 0
        IN /\ Len(tx.sent) = data + (IF extra THEN 1 ELSE 0)
           /\ \A i \in 1..data : tx.sent[i] <= PacketSize
           /\ SumTo(tx.sent, data) = tx.len
           /\ extra => tx.sent[Len(tx.sent)] = 0

\* A send of two full packets with zlp has completed on the samd back-end
\* with the zero-length packet appended.
C23_Witness ==
    /\ tx.pc = "done"
    /\ tx.len = 2 * PacketSize
    /\ tx.zlp
    /\ backend = "samd"
    /\ tx.sent = <<PacketSize, PacketSize, 0>>

\* C25: when tick(now) returns, no node is left linked whose target is not
\* strictly after now (a node with target = now has been unlinked and
\* notified too), and tick unlinks and notifies no node whose target is
\* strictly after now.
C25_TickUnlinksAllDue ==
    [][/\ (tick_pc = "loop" /\ tick_pc' = "idle") =>
              \A i \in Waits :
                  wait'[i].linked => StrictlyBefore(NOW', wait'[i].target)
       /\ TickPopped => ~StrictlyBefore(NOW, wait[HEAD].target)]_vars

\* A step of the running task's future in which a Wait is linked, or a
\* Wait is dropped
LinkOrDropDone ==
    /\ Active # None
    /\ \E i \in Waits :
          \/ ~wait[i].linked /\ wait'[i].linked
          \/ wait[i].st # "free" /\ wait'[i].st = "free"

\* C28: after every completed link, every completed drop of a Wait and
\* every completed tick, the deadline last passed to hw_schedule is the
\* target of the first node of the list, or none when the list is empty.
C28_ScheduledIsHeadTarget ==
    [][(LinkOrDropDone \/ (tick_pc = "loop" /\ tick_pc' = "idle"))
          => sched' = schedule(wait', HEAD')]_vars

\* This step is drop_in_place on the slot of the task of the top frame:
\* TaskStorage::drop going on from its first statement, or the Ready arm of
\* TaskStorage::poll.
DropsFuture ==
    /\ Len(stack') = Len(stack)
    /\ panicked' = panicked
    /\ \/ Running("drop", "d1") /\ stack'[Len(stack')].pc = "d2"
       \/ Running("poll", "p3") /\ stack'[Len(stack')].fn = "drop"

\* C26: a computation written into a slot by spawn is dropped exactly once:
\* every drop_in_place acts on a slot holding a future that has not been
\* dropped yet (never twice), and spawn never writes over a future that has
\* not been dropped (never leaked).
C26_DroppedExactlyOnce ==
    [][/\ DropsFuture => slot[Top.t] = "valid"
       /\ (Running("spawn", "s3") /\ TopStepped) => slot[Top.t] # "valid"]_vars

\* C27: once cancel has returned, a run-queue entry or subscription left
\* over from the cancelled computation never gets the dropped computation
\* polled.  Here for the cancel that spawn begins with: while spawn is
\* between its cancel and its write of the new future, no poll of that task
\* runs the future in the slot.
C27_DroppedNeverPolledAfterCancel ==
    \A i \in 1..Len(stack) : \A j \in 1..Len(stack) :
        (/\ j < i
         /\ stack[j].fn = "spawn"
         /\ stack[j].pc = "s3"
         /\ stack[i].fn = "poll"
         /\ stack[i].pc = "p3"
         /\ stack[i].t = stack[j].t)
            => slot[stack[i].t] = "valid"

\* This step is the return of the poll that the notify of signal s called,
\* and with it of notify.
NotifyReturns(s) ==
    /\ panicked = "none"
    /\ stack # <<>>
    /\ Top.fn = "poll"
    /\ Top.by = "notify"
    /\ Top.x = s
    /\ stack' = Rest

\* C29: notify consumes the subscription: when notify returns the signal is
\* empty, and a notify of a signal with no subscriber changes no task and
\* not the run queue.
C29_NotifyConsumes ==
    [][\A s \in Signals :
          /\ NotifyReturns(s) => poll_fn'[s] = None
          /\ (Notify(s) /\ poll_fn[s] = None) =>
                 <<state, slot, next, head, pendsv, stack>>' =
                 <<state, slot, next, head, pendsv, stack>>]_vars

\* ------------------------------------------------------- setup packets
\* A bmRequestType whose type field is 3 or whose recipient field is above 3
Reserved(b0) == (b0 \div 32) % 4 = 3 \/ b0 % 32 > 3

\* C31: the poll of run_device that reads a setup packet whose request type
\* or recipient field holds a reserved value stalls endpoint 0, installs and
\* polls no handler future, and has still dropped the handler future that
\* was in place.
C31_ReservedSetupRejected ==
    [][\A c \in {"none", "respond", "accept", "reject", "receive", "work"} :
          (FutPoll(c) /\ ev \in SetupKinds /\ Reserved(packet)) =>
              /\ stall'
              /\ hs' = NoHandler
              /\ lastpoll'.ops = (IF hs # NoHandler THEN <<"drop">> ELSE <<>>)
                                     \o <<"stall_ep0">>
              /\ hs # NoHandler =>
                    ended'.how = "discarded" /\ ended'.calls = hs.calls]_vars

\* A packet with a reserved recipient arrived while a handler future was
\* suspended on a transfer, and the poll that read it is done.
C31_Witness ==
    /\ lastpoll.event \in SetupKinds
    /\ lastpoll.b0 % 32 > 3
    /\ (lastpoll.b0 \div 32) % 4 # 3
    /\ lastpoll.had
    /\ ended.how = "discarded"
    /\ lastdrop.ep # "none"
    /\ stall

\* --------------------------------------------------- ControlIn::respond
\* The packets of a data stage of n bytes, of which more were asked for
\* or not
ExpectedIn(n, short) ==
    chunks(n) \o (IF n % 64 = 0 /\ (n = 0 \/ short) THEN <<0>> ELSE <<>>)

\* C32: respond(bytes) sends the first n = min(len(bytes), wLength) bytes as
\* ceil(n / 64) packets of at most 64 bytes, then one zero-length packet
\* exactly when n is a multiple of 64 and either n = 0 or len(bytes) <
\* wLength; the OUT status stage is armed only once all of these have been
\* sent; both back-ends send the same packets.
C32_RespondPackets ==
    LET n == Min(tx.len, tx.length)
        want == ExpectedIn(n, tx.len < tx.length)
    IN /\ tx.pc \in {"armed", "given_back"} =>
             /\ ~avail["ep0out"]
             /\ Len(tx.sent) <= Len(want)
             /\ tx.sent = SubSeq(want, 1, Len(tx.sent))
       /\ tx.pc \in {"status", "done"} =>
             /\ tx.sent = want
             /\ SumTo(tx.sent, Len(tx.sent)) = n
             /\ Len(tx.sent) = ((n + 63) \div 64) + Len(want) - Len(chunks(n))
             /\ \A i \in 1..Len(tx.sent) : tx.sent[i] <= 64
       /\ tx.pc = "status" /\ avail["ep0out"] => tx.hw = <<>> /\ tx.arms = <<>>

\* A response of 128 bytes to a request for more has gone out as two full
\* packets and a zero-length one, and the status stage is armed.
C32_Witness ==
    /\ tx.pc = "status"
    /\ avail["ep0out"]
    /\ tx.len = 128
    /\ tx.length = 200
    /\ tx.sent = <<64, 64, 0>>

\* ------------------------------------ SET_CONFIGURATION, SET_INTERFACE
\* C34: in the poll where set_configuration / set_interface returns, the
\* status stage is acknowledged (endpoint 0 IN armed for the zero-length
\* packet, no stall set by this poll) exactly when it returned Ok, and
\* endpoint 0 is stalled, nothing armed, exactly when it returned Err; after
\* an Err the handler future has completed and run_device goes on.
C34_AcceptOnOkRejectOnErr ==
    [][\A c \in PollInputs :
          LET h == IF ev = "none" THEN hs ELSE NewHandler(ev)
          IN (FutPoll(c) /\ h.req \in {"set_configuration", "set_interface"}
                /\ h.pc \in {"decide", "work"} /\ c # "none") =>
               /\ c \in {"ok", "err", "work"}
               /\ c = "ok" <=> (hs'.pc = "accept_status" /\ avail'["ep0in"])
               /\ c = "ok" => stall' = poll_event(Hw, ev).stall
               /\ c = "err" <=> (stall' /\ hs' = NoHandler /\ ~avail'["ep0in"])
               /\ c = "err" =>
                     /\ ended' = [how |-> "completed", calls |-> 1,
                                  stalled |-> TRUE]
                     /\ usb_panic' = "none"
               /\ c = "work" => (hs'.pc = "work" /\ hs'.calls = 0)]_vars

\* set_configuration has returned Err in the poll that read the request,
\* and the request has ended stalled.
C34_Witness ==
    /\ lastpoll.event = "setup_config"
    /\ lastpoll.ops = <<"drop", "install", "poll">>
    /\ hs = NoHandler
    /\ ended = [how |-> "completed", calls |-> 1, stalled |-> TRUE]
    /\ stall

\* ---------------------------------------------------- ownership bitmap
\* C35: in every state the bit of a bulk endpoint address is set in
\* EP_ENABLED exactly when the Endpoint object of that address is alive,
\* the two bits of endpoint 0 are set, and an address whose object is not
\* alive can be allocated (mark_enabled does not panic); the drop of an
\* Endpoint clears the bit of its address and no other.
C35_BitmapMatchesObjects ==
    /\ [](/\ \A e \in BulkEps :
               ep_enabled_bit(EpAddr[e]) \in EP_ENABLED <=> e \in endpoint
          /\ ep_enabled_bit(EpAddr["ep0out"]) \in EP_ENABLED
          /\ ep_enabled_bit(EpAddr["ep0in"]) \in EP_ENABLED
          /\ \A e \in BulkEps \ endpoint :
               mark_enabled(EP_ENABLED, EpAddr[e]) =
                   [bits |-> EP_ENABLED \cup {ep_enabled_bit(EpAddr[e])},
                    panic |-> "none"])
    /\ [][\A e \in BulkEps :
            EndpointDrop(e) =>
                EP_ENABLED' = EP_ENABLED \ {ep_enabled_bit(EpAddr[e])}]_vars

\* The Endpoint of address 0x81 has been used for a transfer and dropped,
\* the Endpoint of address 0x01 is alive.
C35_Witness ==
    /\ lastdrop.ep = "in1"
    /\ "in1" \notin endpoint
    /\ "out1" \in endpoint
    /\ EP_ENABLED = {ep_enabled_bit(EpAddr["ep0out"]), ep_enabled_bit(EpAddr["ep0in"]),
                     ep_enabled_bit(EpAddr["out1"])}

\* ----------------------------------------------------------------- Until
\* C36: an Until wait does not miss its condition.  Whenever the processor
\* is idle and the condition of the signal holds, a task left suspended on
\* the Until is about to be polled again: its subscription is in place and
\* the interrupt is pending, or its node is queued for the pending drain.
C36_UntilNotMissed ==
    Idle =>
        \A s \in Signals, t \in Tasks :
            (state[t] = "Running" /\ irq[s].cond) =>
                \/ poll_fn[s] = t /\ irq[s].pending
                \/ t \in Queued /\ pendsv

\* ------------------------------------------------------------ bus events
\* C37: every Reset or Setup event raised by the hardware is eventually
\* returned by poll_event.  Whenever the processor is idle with an event
\* flagged, the task suspended in run_device is about to be polled: it
\* holds the subscription of the bus-event signal (whose interrupt stays
\* asserted while the event is flagged), or its node is queued for the
\* pending drain.
C37_BusEventReturned ==
    (Idle /\ ev # "none") =>
        \A t \in Tasks :
            state[t] = "Running" =>
                \/ poll_fn[BusSignal] = t
                \/ t \in Queued /\ pendsv


\* --------------------------------------------------------- deadline list
\* The list of nodes w from h is well formed: the first node has no prev,
\* each node is the prev of its successor, the walk meets no node twice and
\* ends, no released node is on it, and the live nodes on it are those with
\* linked set.
WellFormed(w, h) ==
    LET l == ListFrom(w, h, {})
        on == {l[p] : p \in 1..Len(l)}
    IN /\ h # None => w[h].prev = None
       /\ \A n \in on : w[n].next # None => w[w[n].next].prev = n
       /\ \A p, q \in 1..Len(l) : p # q => l[p] # l[q]
       /\ Len(l) > 0 => w[l[Len(l)]].next = None
       /\ \A n \in on : w[n].st # "free"
       /\ \A i \in Waits : w[i].st # "free" => (i \in on <=> w[i].linked)

\* C38: the deadline list is a well-formed doubly-linked list between
\* operations: the node at HEAD has no prev, every node reachable from HEAD
\* is the prev of its successor, the walk from HEAD meets each Wait at most
\* once and ends, no released Wait is on the list, and a live Wait is on the
\* list exactly when its linked flag is set; and a poll of a pending Wait
\* that is already linked leaves the list as it was.
C38_ListWellFormed ==
    /\ [](WellFormed(wait, HEAD))
    /\ [][\A i \in Waits :
              (WaitPoll(i) /\ wait[i].linked /\ wait'[i].st = "pending")
                  => ListFrom(wait', HEAD', {}) = List]_vars

\* C38 witness: the task being polled holds a Wait that an earlier poll left
\* pending and linked, with a node before it and a node after it, and is
\* about to poll it again.
C38_Witness ==
    \E i \in Waits :
        /\ Active # None
        /\ wait[i].rt = Active
        /\ wait[i].st = "pending" /\ ~wait[i].polled /\ wait[i].linked
        /\ ~Completed
        /\ wait[i].prev # None /\ wait[i].next # None
        /\ Len(List) = 3


\* ---------------------------------------------------- endpoint addresses
\* The endpoint addresses an application can name as the EP parameter of
\* bulk_in / bulk_out / interrupt_in / interrupt_out: number 0..15, bit 7
\* the direction
Addresses == {n + d : n \in 0..15, d \in {0, 128}}

\* The length of NOTIFY_EP_IN and of NOTIFY_EP_OUT, on both back-ends
NotifyLen == 8

\* `ep >> 7`: 0 for OUT, 1 for IN
Dir(ep) == ep \div 128

\* The index into NOTIFY_EP_IN / NOTIFY_EP_OUT of a transfer on address ep:
\* `(ep & 0xF) as usize` on rp, `(ep & 0b111) as usize` on samd
notify_index(ep) == IF backend = "rp" THEN ep % 16 ELSE ep % 8

\* The hardware endpoint a transfer on address ep drives, as <<direction,
\* number>>: rp, ep_buffer_control, `ep_in_buffer_control(ep & EP_ADDR_MASK)`
\* or `ep_out_buffer_control(..)`; samd, UsbShared::ep, `ep_regs(ep & 0b111)`
\* and the bank-0 (OUT) or bank-1 (IN) bits of that register block
ep_regs(ep) == IF backend = "rp" THEN <<Dir(ep), ep % 16>> ELSE <<Dir(ep), ep % 8>>

\* rp: the buffer address relative to the start of DPRAM
buffer_address(ep) ==
    IF ep % 16 = 0 THEN 256 ELSE 256 + (64 * (((ep % 16) * 2) + Dir(ep)))

\* samd: the indices of the bank descriptor, `EP_RAM[ep & 0b111][ep >> 7]`
ep_ram(ep) == <<ep % 8, Dir(ep)>>

\* The packet buffer (rp) or bank descriptor (samd) of address ep
ep_buffer(ep) == IF backend = "rp" THEN <<buffer_address(ep)>> ELSE ep_ram(ep)

\* Endpoints::bulk_interrupt::<D, EP>() for any address: mark_enabled, then
\* the Endpoint object exists.
bulk_interrupt(a) ==
    LET m == mark_enabled(EP_ENABLED, a)
    IN /\ usb_panic = "none"
       /\ Cardinality(endpoint) < MaxEndpoints
       /\ usb_panic' = m.panic
       /\ EP_ENABLED' = m.bits
       /\ endpoint' = IF m.panic = "none" THEN endpoint \cup {a} ELSE endpoint
       /\ UNCHANGED <<backend, ev, stall, avail, hs, xfer, ended, lastdrop, addr,
                      lastpoll, dataVars, packet, irq, res>>
       /\ UNCHANGED <<execVars, timeVars>>

\* Endpoint::send / receive on the object of address a, up to its first
\* await: transfer_in / transfer_out (out_packet) take the registers and the
\* buffer of the address, arm the transfer and index the array of signals.
transfer(a) ==
    /\ usb_panic = "none"
    /\ a \in endpoint
    /\ res' = [ep |-> a, signal |-> <<Dir(a), notify_index(a)>>,
               hw |-> ep_regs(a), buf |-> ep_buffer(a)]
    /\ usb_panic' = IF notify_index(a) < NotifyLen THEN "none"
                    ELSE "index out of bounds"
    /\ UNCHANGED <<EP_ENABLED, endpoint, backend, ev, stall, avail, hs, xfer,
                   ended, lastdrop, addr, lastpoll, dataVars, packet, irq>>
    /\ UNCHANGED <<execVars, timeVars>>

\* Drop for Endpoint<D, EP> of any address
Endpoint_drop(a) ==
    /\ usb_panic = "none"
    /\ a \in endpoint
    /\ endpoint' = endpoint \ {a}
    /\ EP_ENABLED' = EP_ENABLED \ {ep_enabled_bit(a)}
    /\ UNCHANGED <<usb_panic, backend, ev, stall, avail, hs, xfer, ended,
                   lastdrop, addr, lastpoll, dataVars, packet, irq, res>>
    /\ UNCHANGED <<execVars, timeVars>>

AddrNext ==
    \/ \E a \in Addresses : bulk_interrupt(a)
    \/ \E a \in Addresses : transfer(a)
    \/ \E a \in Addresses : Endpoint_drop(a)

\* The device with Endpoint objects of any addresses; in this
\* specification the elements of endpoint are addresses.
AddrSpec == UsbInit /\ [][AddrNext]_vars

\* The addresses in use: those of the live Endpoint objects and the two of
\* the control endpoint
InUse == endpoint \cup {EpAddr["ep0out"], EpAddr["ep0in"]}

\* C39: no index into NOTIFY_EP_IN / NOTIFY_EP_OUT is out of bounds, no two
\* addresses in use share a wake signal or a hardware endpoint, and no two
\* addresses handed out share a buffer.
C39_OwnSignalAndHardware ==
    /\ usb_panic # "index out of bounds"
    /\ \A a, b \in InUse :
          a # b => /\ <<Dir(a), notify_index(a)>> # <<Dir(b), notify_index(b)>>
                   /\ ep_regs(a) # ep_regs(b)
    /\ \A a, b \in endpoint : a # b => ep_buffer(a) # ep_buffer(b)


\* ------------------------------------------------- four-state task cell
\* task.rs: the cell with states Dead, Idle, Polling, PollingPending, whose
\* waker polls the task directly.  The entry point runs with interrupts
\* masked and spawns tasks; after post_init the processor is idle and wakes
\* come from interrupt handlers, which all run at one priority.  In this
\* specification missed[t] records that a poll call found task t being
\* polled and its future has not been polled since.

\* The four states
TaskState == {"Dead", "Idle", "Polling", "PollingPending"}

\* TaskStorage::spawn(fut), called by the entry point or by the future being
\* polled: cancel() (which panics while the task is polled), state Idle,
\* the future written, T::poll_fn()
CellSpawn(u) ==
    /\ panicked = "none"
    /\ stack # <<>>
    /\ \/ Top.fn = "main" /\ Top.pc = "m1"
       \/ Top.fn = "fut" /\ Top.w < MaxCalls
    /\ IF state[u] \in {"Polling", "PollingPending"}
         THEN /\ panicked' = "Can't cancel task while polling it."
              /\ UNCHANGED <<state, slot, stack, missed>>
         ELSE /\ state' = [state EXCEPT ![u] = "Idle"]
              /\ slot' = [slot EXCEPT ![u] = "valid"]
              /\ missed' = [missed EXCEPT ![u] = FALSE]
              /\ stack' = Rest \o <<[Top EXCEPT !.w = IF Top.fn = "fut" THEN @ + 1 ELSE @],
                                    Frame("cell_poll", "tp1", u, "spawn")>>
              /\ UNCHANGED panicked
    /\ UNCHANGED <<next, head, poll_fn, pendsv, irqEnabled, owed, sw, ran>>
    /\ UNCHANGED notExec

\* post_init(): interrupt::enable(); loop { wfi() }
CellPostInit ==
    /\ Running("main", "m1")
    /\ irqEnabled' = TRUE
    /\ Return
    /\ UNCHANGED <<state, slot, next, head, poll_fn, pendsv, panicked, hist>>
    /\ UNCHANGED notExec

\* TaskStorage::poll, `match self.state.get()`: Dead => return; Polling |
\* PollingPending => set PollingPending, return; Idle => the loop is
\* entered, `self.state.set(TaskState::Polling)` and the future is polled
CellPoll ==
    /\ Running("cell_poll", "tp1")
    /\ CASE state[Top.t] = "Dead" ->
              /\ Return
              /\ UNCHANGED <<state, missed>>
         [] state[Top.t] \in {"Polling", "PollingPending"} ->
              /\ state' = [state EXCEPT ![Top.t] = "PollingPending"]
              /\ missed' = [missed EXCEPT ![Top.t] = TRUE]
              /\ Return
         [] state[Top.t] = "Idle" ->
              /\ state' = [state EXCEPT ![Top.t] = "Polling"]
              /\ missed' = [missed EXCEPT ![Top.t] = FALSE]
              /\ stack' = Rest \o <<[Top EXCEPT !.pc = "tp2", !.w = 1],
                                    Frame("fut", "f1", Top.t, "cell_poll")>>
    /\ UNCHANGED <<slot, next, head, poll_fn, pendsv, irqEnabled, panicked,
                   owed, sw, ran>>
    /\ UNCHANGED notExec

\* The future being polled calls wake on the waker of task u (its own, or
\* one it holds): waker_wake, `T::poll_fn()`
CellWake(u) ==
    /\ Running("fut", "f1")
    /\ Top.w < MaxCalls
    /\ stack' = Rest \o <<[Top EXCEPT !.w = @ + 1],
                          Frame("cell_poll", "tp1", u, "wake")>>
    /\ UNCHANGED <<core, hist>>
    /\ UNCHANGED notExec

\* The future being polled subscribes its waker to signal s
CellSubscribe(s) ==
    /\ Running("fut", "f1")
    /\ poll_fn[s] # Top.t
    /\ poll_fn' = [poll_fn EXCEPT ![s] = Top.t]
    /\ UNCHANGED <<state, slot, next, head, pendsv, irqEnabled, stack, panicked,
                   hist>>
    /\ UNCHANGED notExec

\* The poll of the future returns Poll::Pending to TaskStorage::poll
CellFutPending ==
    /\ Running("fut", "f1")
    /\ stack' = SubSeq(stack, 1, Len(stack) - 2)
                    \o <<[stack[Len(stack) - 1] EXCEPT !.pc = "pending"]>>
    /\ UNCHANGED <<core, hist>>
    /\ UNCHANGED notExec

\* The poll of the future returns Poll::Ready to TaskStorage::poll
CellFutReady ==
    /\ Running("fut", "f1")
    /\ stack' = SubSeq(stack, 1, Len(stack) - 2)
                    \o <<[stack[Len(stack) - 1] EXCEPT !.pc = "ready"]>>
    /\ UNCHANGED <<core, hist>>
    /\ UNCHANGED notExec

\* TaskStorage::poll, `.is_ready()`: state Dead, self.drop(), return
CellPollReady ==
    /\ Running("cell_poll", "ready")
    /\ state' = [state EXCEPT ![Top.t] = "Dead"]
    /\ slot' = [slot EXCEPT ![Top.t] = "dropped"]
    /\ missed' = [missed EXCEPT ![Top.t] = FALSE]
    /\ Return
    /\ UNCHANGED <<next, head, poll_fn, pendsv, irqEnabled, panicked, owed, sw, ran>>
    /\ UNCHANGED notExec

\* Mutant of CellPollPending: no loop, the state is set to Idle whatever it
\* is after the poll of the future.
CellPollPendingOnce ==
    /\ Running("cell_poll", "pending")
    /\ state' = [state EXCEPT ![Top.t] = "Idle"]
    /\ Return
    /\ UNCHANGED <<slot, next, head, poll_fn, pendsv, irqEnabled, panicked, hist>>
    /\ UNCHANGED notExec

\* TaskStorage::poll after the future returned Pending, `match
\* self.state.get()`: Polling => break, then `self.state.set(Idle)`;
\* PollingPending => continue: state Polling, the future is polled again;
\* Dead | Idle => unreachable!()
CellPollPending ==
    /\ Running("cell_poll", "pending")
    /\ CASE state[Top.t] = "Polling" ->
              /\ state' = [state EXCEPT ![Top.t] = "Idle"]
              /\ Return
              /\ UNCHANGED <<missed, panicked>>
         [] state[Top.t] = "PollingPending" ->
              /\ state' = [state EXCEPT ![Top.t] = "Polling"]
              /\ missed' = [missed EXCEPT ![Top.t] = FALSE]
              /\ stack' = Rest \o <<[Top EXCEPT !.pc = "tp2", !.w = Min(@ + 1, 3)],
                                    Frame("fut", "f1", Top.t, "cell_poll")>>
              /\ UNCHANGED panicked
         [] OTHER ->
              /\ panicked' = "unreachable"
              /\ UNCHANGED <<state, missed, stack>>
    /\ UNCHANGED <<slot, next, head, poll_fn, pendsv, irqEnabled, owed, sw, ran>>
    /\ UNCHANGED notExec

\* An interrupt handler made with isr!, taken while the processor is idle:
\* Interrupt::notify takes the waker and wakes it
CellNotify(s) ==
    /\ panicked = "none"
    /\ irqEnabled
    /\ stack = <<>>
    /\ poll_fn[s] # None
    /\ poll_fn' = [poll_fn EXCEPT ![s] = None]
    /\ stack' = <<[Frame("cell_poll", "tp1", poll_fn[s], "notify") EXCEPT !.isr = TRUE]>>
    /\ UNCHANGED <<state, slot, next, head, pendsv, irqEnabled, panicked, hist>>
    /\ UNCHANGED notExec

CellNext ==
    \/ \E u \in Tasks : CellSpawn(u)
    \/ CellPostInit
    \/ CellPoll
    \/ \E u \in Tasks : CellWake(u)
    \/ \E s \in Signals : CellSubscribe(s)
    \/ CellFutPending
    \/ CellFutReady
    \/ CellPollReady
    \/ CellPollPending
    \/ \E s \in Signals : CellNotify(s)

CellSpec == Init /\ [][CellNext]_vars

\* The frame of the poll call that is polling the future of the top frame
Caller == stack[Len(stack) - 1]

\* C40: a poll call that finds the task being polled leaves the state
\* PollingPending; a poll call whose poll of the future returned Pending
\* with the state PollingPending polls the future again itself; the state
\* becomes Idle only at the end of a poll call whose last poll of the
\* future saw no wake, and a poll call sets it Dead only when the future
\* returned Ready; so whenever a task is Idle no wake made since the last
\* poll of its future began is outstanding.
C40_WakeDuringPollRepolls ==
    /\ [](\A t \in Tasks : state[t] \in {"Idle", "Dead"} => ~missed[t])
    /\ [][(CellPoll /\ state[Top.t] \in {"Polling", "PollingPending"})
              => state'[Top.t] = "PollingPending"]_vars
    /\ [][(Running("cell_poll", "pending") /\ state[Top.t] = "PollingPending")
              => /\ Len(stack') = Len(stack) + 1
                 /\ stack'[Len(stack')].fn = "fut"
                 /\ stack'[Len(stack')].t = Top.t
                 /\ stack'[Len(stack)].w = Min(Top.w + 1, 3)
                 /\ state'[Top.t] = "Polling"]_vars
    /\ [][\A t \in Tasks :
            (state[t] \in {"Polling", "PollingPending"} /\ state'[t] = "Idle")
              => /\ Running("cell_poll", "pending") /\ Top.t = t
                 /\ ~missed[t]]_vars
    /\ [][\A t \in Tasks :
            (state[t] \in {"Polling", "PollingPending"} /\ state'[t] = "Dead")
              => Running("cell_poll", "ready") /\ Top.t = t]_vars

\* C40 witness: a wake arrived during the first poll of the future, which
\* returned Pending, and the same poll call is polling the future a second
\* time.
C40_Witness ==
    /\ Len(stack) >= 2
    /\ Top.fn = "fut"
    /\ Caller.fn = "cell_poll" /\ Caller.t = Top.t /\ Caller.w = 2
    /\ state[Top.t] = "Polling"
    /\ ~missed[Top.t]

====
